---- MODULE Spec2Model ----
(***************************************************************************)
(* Authentication / session core of chattycathy: the refresh-session store *)
(* (Redis), the session handlers (login, refresh, logout, logout-all,      *)
(* session listing), the token codec and the access-control middleware.    *)
(***************************************************************************)
EXTENDS Integers, Sequences, FiniteSets, TLC

(* ------------------------------ bounds -------------------------------- *)

\* number of refresh tokens GenerateRefreshToken hands out to logins in one
\* behaviour (and to sequential refreshes)
MaxTok == 2
\* number of Refresh requests whose store steps interleave
MaxReq == 2
\* the refresh-session TTL (refreshTokenExpiryDays), in clock ticks
RefreshTTL == 2
\* the access-token lifetime (accessTokenExpiryMins), in minutes
AccessTTL == 1
\* the last tick of the clock
MaxClock == 3

(* ----------------------------- vocabulary ----------------------------- *)

\* the empty string returned by getRefreshToken when no token is presented
EmptyTok == 0
\* a well-formed token string that GenerateRefreshToken never produced
BogusTok == 0 - 1
TokenIds == 1..MaxTok
Requests == 1..MaxReq

\* Redis TTL answer for a key without expiry
NoTTL == 0 - 1

NoData == [absent |-> TRUE]
NoAccess == [absent |-> TRUE]

Usernames == {"alice", "admin"}
Passwords == {"password123", "letmein"}
Clients == {[ua |-> "firefox", ip |-> "10.0.0.1"]}
\* the clients a user logs in from
LoginClients == Clients \cup {[ua |-> "curl", ip |-> "10.0.0.2"]}
LoginUserIDs == {"user-" \o n : n \in Usernames}

\* the identities Google vouches for
GoogleUsers == {[ID |-> "g-carol", Email |-> "carol@example.com"]}
\* primary keys of the users table
DbUserIDs == 1..Cardinality(GoogleUsers)

Digits == <<"0", "1", "2", "3", "4", "5", "6", "7", "8", "9">>

\* strconv.FormatUint(n, 10)
RECURSIVE FormatUint(_)
FormatUint(n) ==
    IF n < 10 THEN Digits[n + 1] ELSE FormatUint(n \div 10) \o Digits[(n % 10) + 1]

GoogleUserIDs == {FormatUint(id) : id \in DbUserIDs}
UserIDs == LoginUserIDs \cup GoogleUserIDs

\* the permissions table as SeedDefaultRolesAndPermissions fills it (its first
\* rows): id -> name
PermissionNames == <<"ping:read", "news:read", "news:create">>
PermissionIDs == 1..Len(PermissionNames)

\* the roles SeedDefaultRolesAndPermissions creates: id -> role
SeedRoles ==
    <<[Name |-> "admin", Description |-> "Administrator with full access",
       IsSystem |-> TRUE,
       Permissions |-> {PermissionNames[p] : p \in PermissionIDs}],
      [Name |-> "user", Description |-> "Regular user with basic access",
       IsSystem |-> TRUE,
       Permissions |-> {"ping:read", "news:read"}],
      [Name |-> "editor", Description |-> "Editor with news management access",
       IsSystem |-> FALSE,
       Permissions |-> {"ping:read", "news:read", "news:create", "news:update"}]>>

Issuer == "chattycathy"

\* the Redis commands of one handler run that the failure oracle can fail ("rget"
\* is the GET inside RevokeRefreshToken, "delidx" the DEL of the index key); the
\* oracle can also hold "rand", the failure of rand.Read in GenerateRefreshToken
Cmds == {"get", "rget", "srem", "del", "set", "sadd", "expire", "smembers", "delidx"}

VARIABLES
    kv,        \* refresh_token:<token> keys: existing key -> [json, ttl]
    idx,       \* user_tokens:<user> sets: user -> set of tokens
    idxTTL,    \* expiry of the user_tokens:<user> key: NoTTL | 1..RefreshTTL
    nextTok,   \* the next token GenerateRefreshToken returns
    rotated,   \* history: token -> "no" | "clean" | "dirty": a Refresh answered 200 to it,
               \*          and whether the revoke inside that Refresh returned an error
    owner,     \* history: token -> the user whose 200 answer carried it ("" = nobody's)
    loggedOut, \* history: the tokens of a user at the time a LogoutAll of that user answered 200
    revoked,   \* history: token -> "no" | "clean" | "dirty": a Logout presented it while
               \*          its key existed, and whether the revoke returned an error
    req,       \* the Refresh requests in flight:
               \*   request -> [pc, token, data, fresh, revErr, status, crashed]
    snapshot,  \* history: token -> the identity resolved by the login its chain of
               \*          refreshes began with (NoData = not handed out)
    users,           \* users table: id -> [GoogleID, Email, Role]
    permissionRows,  \* permissions table: id -> [Name]
    roles,           \* roles table: id -> [Name, Description, IsSystem]
    roleSeq,         \* the id the roles table gives its next row
    rolePermissions, \* role_permissions table: set of <<role id, permission id>>
    userRoles,       \* user_roles table: set of <<user id, role id>>
    now,       \* the clock, in ticks
    minted,    \* history: the access tokens GenerateAccessToken has signed
    ctx,       \* the gin.Context of the request in the middleware chain:
               \*   [chain, index, header, claims, aborted, status, body, reached, at]
    codec,     \* one use of the token codec: the arguments of GenerateAccessToken,
               \*   the instant of the call, the key that signed, the token string,
               \*   the instant of a ValidateToken of it and what it returned
    answer,    \* history: the last run of Migrate or of an admin handler:
               \*   [op, status, err, changed]
    bulk       \* the LogoutAll request in flight: [pc, user, tokens, status, logins];
               \*   tokens is what SMEMBERS returned, logins the users that logged
               \*   in after the request started

storeVars == <<kv, idx, idxTTL>>
dbVars == <<users, permissionRows, roles, roleSeq, rolePermissions, userRoles>>
gateVars == <<now, minted, ctx>>
sideVars == <<codec, answer, bulk>>

\* the codec not used yet
NoCodec == [absent |-> TRUE]

\* no LogoutAll request has started
NoBulk == [pc |-> "idle", user |-> "", tokens |-> {}, status |-> 0, logins |-> {}]

\* a request slot no request has used yet
Idle == [pc |-> "idle", token |-> EmptyTok, data |-> NoData, fresh |-> EmptyTok,
         revErr |-> FALSE, status |-> 0, crashed |-> FALSE]

(* ------------------- encoding of RefreshTokenData --------------------- *)

\* json.Marshal(data): the permissions field carries omitempty
Marshal(data) ==
    LET base == [user_id |-> data.UserID, username |-> data.Username, role |-> data.Role,
                 created_at |-> data.CreatedAt,
                 user_agent |-> data.UserAgent, ip |-> data.IP]
    IN  IF Len(data.Permissions) = 0
        THEN base
        ELSE [k \in DOMAIN base \cup {"permissions"} |->
                 IF k = "permissions" THEN data.Permissions ELSE base[k]]

\* json.Unmarshal(jsonData, &data): an absent field leaves the zero value
Unmarshal(json) ==
    [UserID |-> json.user_id, Username |-> json.username, Role |-> json.role,
     Permissions |-> IF "permissions" \in DOMAIN json THEN json.permissions ELSE <<>>,
     CreatedAt |-> json.created_at,
     UserAgent |-> json.user_agent, IP |-> json.ip]

(* ---------------------- the refresh-session store ---------------------- *)

Store == [kv |-> kv, idx |-> idx, ittl |-> idxTTL]

\* SET key value EX ttl
Set(keys, key, value) == [k \in DOMAIN keys \cup {key} |-> IF k = key THEN value ELSE keys[k]]

\* DEL key
Del(keys, key) == [k \in DOMAIN keys \ {key} |-> keys[k]]

\* SREM: removing the last member deletes the key, and its expiry with it
SRem(s, user, token) ==
    LET left == s.idx[user] \ {token}
    IN  [s EXCEPT !.idx[user] = left,
                  !.ittl[user] = IF left = {} THEN NoTTL ELSE @]

\* GetRefreshTokenData(ctx, token); F is the set of commands that fail
GetRefreshTokenData(s, token, F) ==
    IF "get" \in F \/ token \notin DOMAIN s.kv
    THEN [err |-> "refresh token not found or expired", data |-> NoData]
    ELSE [err |-> "", data |-> Unmarshal(s.kv[token].json)]

\* StoreRefreshToken(ctx, token, data, expiry)
StoreRefreshToken(s, token, data, expiry, F) ==
    IF "set" \in F
    THEN [err |-> "failed to store refresh token", s |-> s]
    ELSE LET s1 == [s EXCEPT !.kv = Set(@, token, [json |-> Marshal(data), ttl |-> expiry])]
         IN  IF "sadd" \in F
             THEN [err |-> "failed to add token to user set", s |-> s1]
             ELSE LET s2 == [s1 EXCEPT !.idx[data.UserID] = @ \cup {token}]
                  IN  [err |-> "",
                       s |-> IF "expire" \in F THEN s2
                             ELSE [s2 EXCEPT !.ittl[data.UserID] = expiry]]

\* a revoke that reports success and leaves the key in place
RevokeRefreshToken_KeepsKey(s, token, F) ==
    LET g == GetRefreshTokenData(s, token, IF "rget" \in F THEN {"get"} ELSE {})
    IN  [err |-> "",
         s |-> IF g.err = "" /\ "srem" \notin F THEN SRem(s, g.data.UserID, token) ELSE s]

\* a revoke that does not report the error of its DEL
RevokeRefreshToken_DropsDelError(s, token, F) ==
    LET g == GetRefreshTokenData(s, token, IF "rget" \in F THEN {"get"} ELSE {})
        s1 == IF g.err = "" /\ "srem" \notin F
              THEN SRem(s, g.data.UserID, token)
              ELSE s
    IN  [err |-> "", s |-> IF "del" \in F THEN s1 ELSE [s1 EXCEPT !.kv = Del(@, token)]]
\* a revoke that deletes the user's whole index key instead of one entry
RevokeRefreshToken_ClearsIndex(s, token, F) ==
    LET g == GetRefreshTokenData(s, token, IF "rget" \in F THEN {"get"} ELSE {})
        s1 == IF g.err = "" /\ "srem" \notin F
              THEN [s EXCEPT !.idx[g.data.UserID] = {}, !.ittl[g.data.UserID] = NoTTL]
              ELSE s
    IN  IF "del" \in F
        THEN [err |-> "del failed", s |-> s1]
        ELSE [err |-> "", s |-> [s1 EXCEPT !.kv = Del(@, token)]]

\* RevokeRefreshToken(ctx, token)
RevokeRefreshToken(s, token, F) ==
    LET g == GetRefreshTokenData(s, token, IF "rget" \in F THEN {"get"} ELSE {})
        s1 == IF g.err = "" /\ "srem" \notin F
              THEN SRem(s, g.data.UserID, token)
              ELSE s
    IN  IF "del" \in F
        THEN [err |-> "del failed", s |-> s1]
        ELSE [err |-> "", s |-> [s1 EXCEPT !.kv = Del(@, token)]]

SetMin(S) == CHOOSE x \in S : \A y \in S : x <= y

\* the loop of RevokeAllUserTokens: DEL of every token, errors ignored; TF = the
\* tokens whose DEL fails
RECURSIVE DelEach(_, _, _)
DelEach(s, tokens, TF) ==
    IF tokens = {} THEN s
    ELSE LET t == SetMin(tokens)
         IN  DelEach(IF t \in TF THEN s ELSE [s EXCEPT !.kv = Del(@, t)], tokens \ {t}, TF)

\* a bulk revoke that stops at the first record whose DEL fails
RevokeAllUserTokens_AbortsOnDelError(s, userID, F, TF) ==
    IF "smembers" \in F
    THEN [err |-> "failed to get user tokens", s |-> s]
    ELSE IF s.idx[userID] \cap TF # {}
    THEN [err |-> "del failed", s |-> s]
    ELSE LET s1 == DelEach(s, s.idx[userID], TF)
         IN  IF "delidx" \in F
             THEN [err |-> "del failed", s |-> s1]
             ELSE [err |-> "", s |-> [s1 EXCEPT !.idx[userID] = {}, !.ittl[userID] = NoTTL]]

\* RevokeAllUserTokens(ctx, userID)
RevokeAllUserTokens(s, userID, F, TF) ==
    IF "smembers" \in F
    THEN [err |-> "failed to get user tokens", s |-> s]
    ELSE LET s1 == DelEach(s, s.idx[userID], TF)
         IN  IF "delidx" \in F
             THEN [err |-> "del failed", s |-> s1]
             ELSE [err |-> "", s |-> [s1 EXCEPT !.idx[userID] = {}, !.ittl[userID] = NoTTL]]

\* the loop of ListUserTokens, over the members SMEMBERS returned; acc carries the
\* store and the result so far; TF = the tokens whose GET fails
RECURSIVE ListEach(_, _, _, _, _)
ListEach(acc, userID, tokens, F, TF) ==
    IF tokens = {} THEN acc
    ELSE LET t == SetMin(tokens)
             g == GetRefreshTokenData(acc.s, t, IF t \in TF THEN {"get"} ELSE {})
         IN  IF g.err # ""
             THEN ListEach([acc EXCEPT !.s = IF "srem" \in F THEN @ ELSE SRem(@, userID, t)],
                           userID, tokens \ {t}, F, TF)
             ELSE ListEach([acc EXCEPT !.result = Append(@, g.data)],
                           userID, tokens \ {t}, F, TF)

\* a listing that leaves the index as it found it
ListUserTokens_KeepsStale(s, userID, F, TF) ==
    IF "smembers" \in F
    THEN [err |-> "failed to get user tokens", s |-> s, result |-> <<>>]
    ELSE LET r == ListEach([s |-> s, result |-> <<>>], userID, s.idx[userID], F, TF)
         IN  [err |-> "", s |-> s, result |-> r.result]

\* ListUserTokens(ctx, userID)
ListUserTokens(s, userID, F, TF) ==
    IF "smembers" \in F
    THEN [err |-> "failed to get user tokens", s |-> s, result |-> <<>>]
    ELSE LET r == ListEach([s |-> s, result |-> <<>>], userID, s.idx[userID], F, TF)
         IN  [err |-> "", s |-> r.s, result |-> r.result]

\* key expiry by Redis as one tick of time passes
Expired(s) ==
    [kv |-> [t \in {k \in DOMAIN s.kv : s.kv[k].ttl # 1} |-> [s.kv[t] EXCEPT !.ttl = @ - 1]],
     idx |-> [u \in UserIDs |-> IF s.ittl[u] = 1 THEN {} ELSE s.idx[u]],
     ittl |-> [u \in UserIDs |->
                IF s.ittl[u] = NoTTL \/ s.ittl[u] = 1 THEN NoTTL ELSE s.ittl[u] - 1]]

(* ------------------------- the RBAC database --------------------------- *)

DB == [users |-> users, permissions |-> permissionRows, roles |-> roles,
       roleSeq |-> roleSeq, rolePermissions |-> rolePermissions,
       userRoles |-> userRoles]

\* db.Where("name = ?", roleName).First(&role): name carries a unique index
RoleByName(db, roleName) == {r \in DOMAIN db.roles : db.roles[r].Name = roleName}
\* an AssignRoleToUser that also writes the role's name to the user's label
AssignRoleToUser_SetsLabel(db, userID, roleName, F) ==
    IF "assign" \in F \/ RoleByName(db, roleName) = {}
    THEN [err |-> "record not found", db |-> db]
    ELSE LET role == CHOOSE r \in RoleByName(db, roleName) : TRUE
         IN  [err |-> "", db |-> [db EXCEPT !.userRoles = @ \cup {<<userID, role>>},
                                            !.users[userID].Role = roleName]]

\* models.AssignRoleToUser(db, userID, roleName); F is the set of statements that fail
AssignRoleToUser(db, userID, roleName, F) ==
    IF "assign" \in F \/ RoleByName(db, roleName) = {}
    THEN [err |-> "record not found", db |-> db]
    ELSE LET role == CHOOSE r \in RoleByName(db, roleName) : TRUE
         IN  [err |-> "", db |-> [db EXCEPT !.userRoles = @ \cup {<<userID, role>>}]]

\* models.RemoveRoleFromUser(db, userID, roleName)
RemoveRoleFromUser(db, userID, roleName, F) ==
    IF "remove" \in F \/ RoleByName(db, roleName) = {}
    THEN [err |-> "record not found", db |-> db]
    ELSE LET role == CHOOSE r \in RoleByName(db, roleName) : TRUE
         IN  [err |-> "", db |-> [db EXCEPT !.userRoles = @ \ {<<userID, role>>}]]

\* the orders in which a SELECT without ORDER BY can return the rows S
Orderings(S) ==
    {q \in [1..Cardinality(S) -> S] : \A i, j \in 1..Cardinality(S) : q[i] = q[j] => i = j}

\* a resolution that looks at one of the user's roles only
GetUserPermissions_OneRole(db, userID, F) ==
    IF "perms" \in F
    THEN [err |-> "select failed", rows |-> {<<>>}]
    ELSE LET assigned == {ur[2] : ur \in {x \in db.userRoles : x[1] = userID}}
             held == {p \in PermissionIDs :
                        \E rp \in db.rolePermissions :
                            /\ assigned # {}
                            /\ rp[1] = CHOOSE r \in assigned : \A q \in assigned : r <= q
                            /\ rp[2] = p}
         IN  [err |-> "", rows |-> Orderings({PermissionNames[p] : p \in held})]

\* models.GetUserPermissions(db, userID): the row lists the SELECT DISTINCT over
\* permissions, role_permissions and user_roles can return
GetUserPermissions(db, userID, F) ==
    IF "perms" \in F
    THEN [err |-> "select failed", rows |-> {<<>>}]
    ELSE LET held == {p \in PermissionIDs :
                        \E ur \in db.userRoles, rp \in db.rolePermissions :
                            ur[1] = userID /\ rp[1] = ur[2] /\ rp[2] = p}
         IN  [err |-> "", rows |-> Orderings({PermissionNames[p] : p \in held})]

(* ------------------------------ the codec ------------------------------ *)

\* the identity part of the claims GenerateAccessToken signs
AccessClaims(userID, username, role, permissions, issuer) ==
    [UserID |-> userID, Username |-> username, Role |-> role,
     Permissions |-> permissions, Issuer |-> issuer, Subject |-> userID]

\* NumericDate of a registered claim the token does not carry
NoTime == 0 - 1

\* the RSA key pair InitJWT made, as the names of its halves
PrivateKey == "server-private"
PublicKey == "server-public"
\* the private half that goes with a public key
PrivateOf(pub) == IF pub = PublicKey THEN PrivateKey ELSE "unknown-private"

\* the zero value of a field of Claims
ZeroClaim(field) ==
    IF field = "Permissions" THEN <<>>
    ELSE IF field \in {"IssuedAt", "ExpiresAt", "NotBefore"} THEN NoTime
    ELSE ""

ClaimFields ==
    {"UserID", "Username", "Role", "Permissions", "Issuer", "Subject",
     "IssuedAt", "ExpiresAt", "NotBefore"}

\* json.Marshal of Claims: permissions, iss, sub, iat, exp and nbf carry
\* omitempty and are left out when they hold their zero value
MarshalClaims(claims) ==
    [f \in {g \in DOMAIN claims :
                g \in {"UserID", "Username", "Role"} \/ claims[g] # ZeroClaim(g)} |->
        claims[f]]

\* json.Unmarshal into &Claims{}: a member the payload lacks keeps its zero value
UnmarshalClaims(payload) ==
    [f \in ClaimFields |-> IF f \in DOMAIN payload THEN payload[f] ELSE ZeroClaim(f)]

\* jwt.NewWithClaims(method, claims) and token.SignedString(key): the three
\* segments of a compact token, the payload being the JSON of the claims
SignedString(alg, claims, key) ==
    [segments |-> 3, alg |-> alg, claims |-> MarshalClaims(claims),
     sig |-> [alg |-> alg, claims |-> MarshalClaims(claims), key |-> key]]

\* jwt.TimePrecision, in ticks of the clock: the clock reads finer than a
\* NumericDate records
TimePrecision == 2
\* time.Minute in ticks of the clock, on a scale that makes the minute one
\* unit of TimePrecision
Minute == TimePrecision
\* jwt.NewNumericDate(t): t truncated to TimePrecision
NewNumericDate(t) == t - (t % TimePrecision)

\* the Claims GenerateAccessToken fills at time t
TimedClaims(c, expiryMins, t) ==
    [UserID |-> c.UserID, Username |-> c.Username, Role |-> c.Role,
     Permissions |-> c.Permissions, Issuer |-> c.Issuer, Subject |-> c.Subject,
     IssuedAt |-> NewNumericDate(t),
     ExpiresAt |-> NewNumericDate(t + expiryMins * Minute),
     NotBefore |-> NewNumericDate(t)]

\* GenerateAccessToken at time t, c being AccessClaims of its arguments
GenerateAccessToken(c, expiryMins, t) ==
    SignedString("RS256", TimedClaims(c, expiryMins, t), PrivateKey)

\* the signing methods of type *jwt.SigningMethodRSA
SigningMethodRSA == {"RS256", "RS384", "RS512"}

\* a validation that leaves out the check of exp
ValidateToken_IgnoresExpiry(tokenString, t) ==
    LET Fail(e) == [err |-> e, claims |-> NoData] IN
    IF Len(tokenString) # 1 \/ "jwt" \notin DOMAIN tokenString[1]
    THEN Fail("token is malformed")
    ELSE
    LET token == tokenString[1].jwt IN
    IF token.segments # 3
    THEN Fail("token is malformed")
    ELSE IF token.alg \notin SigningMethodRSA
    THEN Fail("unexpected signing method")
    ELSE IF token.sig # [alg |-> token.alg, claims |-> token.claims,
                         key |-> PrivateOf(PublicKey)]
    THEN Fail("signature is invalid")
    ELSE [err |-> "", claims |-> UnmarshalClaims(token.claims)]

\* a validation that lets a token pass one tick past its exp
ValidateToken_Leeway(tokenString, t) ==
    LET Fail(e) == [err |-> e, claims |-> NoData] IN
    IF Len(tokenString) # 1 \/ "jwt" \notin DOMAIN tokenString[1]
    THEN Fail("token is malformed")
    ELSE
    LET token == tokenString[1].jwt IN
    IF token.segments # 3
    THEN Fail("token is malformed")
    ELSE IF token.alg \notin SigningMethodRSA
    THEN Fail("unexpected signing method")
    ELSE IF token.sig # [alg |-> token.alg, claims |-> token.claims,
                         key |-> PrivateOf(PublicKey)]
    THEN Fail("signature is invalid")
    ELSE
    LET claims == UnmarshalClaims(token.claims) IN
    IF claims.ExpiresAt # NoTime /\ ~(t < claims.ExpiresAt + 1)
    THEN Fail("token is expired")
    ELSE IF claims.NotBefore # NoTime /\ t < claims.NotBefore
    THEN Fail("token is not valid yet")
    ELSE [err |-> "", claims |-> claims]

\* a validation that does not verify the signature
ValidateToken_SkipsSignature(tokenString, t) ==
    LET Fail(e) == [err |-> e, claims |-> NoData] IN
    IF Len(tokenString) # 1 \/ "jwt" \notin DOMAIN tokenString[1]
    THEN Fail("token is malformed")
    ELSE
    LET token == tokenString[1].jwt IN
    IF token.segments # 3
    THEN Fail("token is malformed")
    ELSE IF token.alg \notin SigningMethodRSA
    THEN Fail("unexpected signing method")
    ELSE
    LET claims == UnmarshalClaims(token.claims) IN
    IF claims.ExpiresAt # NoTime /\ ~(t < claims.ExpiresAt)
    THEN Fail("token is expired")
    ELSE IF claims.NotBefore # NoTime /\ t < claims.NotBefore
    THEN Fail("token is not valid yet")
    ELSE [err |-> "", claims |-> claims]

\* ValidateToken(tokenString) at time t: jwt.ParseWithClaims with the key
\* function that admits RSA methods only, then the validation of exp and nbf
ValidateToken(tokenString, t) ==
    LET Fail(e) == [err |-> e, claims |-> NoData] IN
    IF Len(tokenString) # 1 \/ "jwt" \notin DOMAIN tokenString[1]
    THEN Fail("token is malformed")
    ELSE
    LET token == tokenString[1].jwt IN
    IF token.segments # 3
    THEN Fail("token is malformed")
    ELSE IF token.alg \notin SigningMethodRSA
    THEN Fail("unexpected signing method")
    ELSE IF token.sig # [alg |-> token.alg, claims |-> token.claims,
                         key |-> PrivateOf(PublicKey)]
    THEN Fail("signature is invalid")
    ELSE
    LET claims == UnmarshalClaims(token.claims) IN
    IF claims.ExpiresAt # NoTime /\ ~(t < claims.ExpiresAt)
    THEN Fail("token is expired")
    ELSE IF claims.NotBefore # NoTime /\ t < claims.NotBefore
    THEN Fail("token is not valid yet")
    ELSE [err |-> "", claims |-> claims]

(* ------------------------ the access-control gate ----------------------- *)

\* a header value is a sequence of bytes: [c |-> character], or [jwt |-> token]
\* for the run of bytes that is the compact form of a token
Chars(str) == [i \in DOMAIN str |-> [c |-> str[i]]]

BearerPrefix == Chars(<<"B", "e", "a", "r", "e", "r", " ">>)

\* strings.HasPrefix(str, prefix)
HasPrefix(str, prefix) ==
    Len(str) >= Len(prefix) /\ SubSeq(str, 1, Len(prefix)) = prefix

\* strings.TrimPrefix(str, prefix)
TrimPrefix(str, prefix) ==
    IF HasPrefix(str, prefix) THEN SubSeq(str, Len(prefix) + 1, Len(str)) ELSE str

NoClaims == [absent |-> TRUE]
NoBody == [error |-> "", list |-> <<>>]

\* the gin.Context before any request arrived
NoRequest ==
    [chain |-> <<>>, index |-> 1, header |-> <<>>, claims |-> NoClaims,
     aborted |-> FALSE, status |-> 0, body |-> NoBody, reached |-> FALSE, at |-> 0]

\* c.AbortWithStatusJSON(status, gin.H{"error": error, <field>: list})
AbortWithStatusJSON(c, status, error, list) ==
    [c EXCEPT !.aborted = TRUE, !.status = status,
              !.body = [error |-> error, list |-> list]]

\* c.Next(): on to the next handler of the chain
NextHandler(c) == [c EXCEPT !.index = @ + 1]

\* a gate that also asks the session store for a record of the token's user
JWTAuth_ChecksSession(c, t) ==
    LET authHeader == c.header IN
    IF authHeader = <<>>
    THEN AbortWithStatusJSON(c, 401, "missing authorization header", <<>>)
    ELSE IF ~HasPrefix(authHeader, BearerPrefix)
    THEN AbortWithStatusJSON(c, 401, "invalid authorization header format", <<>>)
    ELSE LET v == ValidateToken(TrimPrefix(authHeader, BearerPrefix), t)
         IN  IF v.err # ""
             THEN AbortWithStatusJSON(c, 401, "invalid or expired token", <<>>)
             ELSE IF \A k \in DOMAIN kv : Unmarshal(kv[k].json).UserID # v.claims.UserID
             THEN AbortWithStatusJSON(c, 401, "invalid or expired token", <<>>)
             ELSE NextHandler([c EXCEPT !.claims = v.claims])

\* the handler JWTAuth() returns, run at time t
JWTAuth(c, t) ==
    LET authHeader == c.header IN
    IF authHeader = <<>>
    THEN AbortWithStatusJSON(c, 401, "missing authorization header", <<>>)
    ELSE IF ~HasPrefix(authHeader, BearerPrefix)
    THEN AbortWithStatusJSON(c, 401, "invalid authorization header format", <<>>)
    ELSE LET v == ValidateToken(TrimPrefix(authHeader, BearerPrefix), t)
         IN  IF v.err # ""
             THEN AbortWithStatusJSON(c, 401, "invalid or expired token", <<>>)
             ELSE NextHandler([c EXCEPT !.claims = v.claims])

\* the loop of RequireRole: does some listed role equal the claims' role
RECURSIVE RoleListed(_, _)
RoleListed(rolesLeft, role) ==
    IF rolesLeft = <<>> THEN FALSE
    ELSE IF role = Head(rolesLeft) THEN TRUE
    ELSE RoleListed(Tail(rolesLeft), role)

\* a role guard that looks at the first listed role only
RequireRole_FirstOnly(rolesArg, c) ==
    IF c.claims = NoClaims
    THEN AbortWithStatusJSON(c, 401, "not authenticated", <<>>)
    ELSE IF rolesArg # <<>> /\ c.claims.Role = Head(rolesArg)
    THEN NextHandler(c)
    ELSE AbortWithStatusJSON(c, 403, "insufficient permissions", <<>>)

\* the handler RequireRole(roles...) returns
RequireRole(rolesArg, c) ==
    IF c.claims = NoClaims
    THEN AbortWithStatusJSON(c, 401, "not authenticated", <<>>)
    ELSE IF "UserID" \notin DOMAIN c.claims
    THEN AbortWithStatusJSON(c, 500, "invalid claims", <<>>)
    ELSE IF RoleListed(rolesArg, c.claims.Role)
    THEN NextHandler(c)
    ELSE AbortWithStatusJSON(c, 403, "insufficient permissions", <<>>)

\* userPerms: the map built from claims.Permissions, as the set of its keys
UserPerms(claims) == {claims.Permissions[i] : i \in DOMAIN claims.Permissions}

\* the loop of RequirePermission: is some required permission held
RECURSIVE AnyHeld(_, _)
AnyHeld(permissions, userPerms) ==
    IF permissions = <<>> THEN FALSE
    ELSE IF Head(permissions) \in userPerms THEN TRUE
    ELSE AnyHeld(Tail(permissions), userPerms)

\* a permission guard that wants every required permission held
RequirePermission_AllOf(permissions, c) ==
    IF c.claims = NoClaims
    THEN AbortWithStatusJSON(c, 401, "not authenticated", <<>>)
    ELSE IF permissions # <<>> /\ \A i \in DOMAIN permissions : permissions[i] \in UserPerms(c.claims)
    THEN NextHandler(c)
    ELSE AbortWithStatusJSON(c, 403, "insufficient permissions", permissions)

\* the handler RequirePermission(permissions...) returns
RequirePermission(permissions, c) ==
    IF c.claims = NoClaims
    THEN AbortWithStatusJSON(c, 401, "not authenticated", <<>>)
    ELSE IF "UserID" \notin DOMAIN c.claims
    THEN AbortWithStatusJSON(c, 500, "invalid claims", <<>>)
    ELSE IF AnyHeld(permissions, UserPerms(c.claims))
    THEN NextHandler(c)
    ELSE AbortWithStatusJSON(c, 403, "insufficient permissions", permissions)

\* an all-permissions guard that is content with one required permission held
RequireAllPermissions_AnyOf(permissions, c) ==
    IF c.claims = NoClaims
    THEN AbortWithStatusJSON(c, 401, "not authenticated", <<>>)
    ELSE IF permissions = <<>> \/ AnyHeld(permissions, UserPerms(c.claims))
    THEN NextHandler(c)
    ELSE AbortWithStatusJSON(c, 403, "insufficient permissions", permissions)

\* the loop of RequireAllPermissions: the required permissions not held, appended
\* in the order required
RECURSIVE Missing(_, _, _)
Missing(permissions, userPerms, missing) ==
    IF permissions = <<>> THEN missing
    ELSE Missing(Tail(permissions), userPerms,
                 IF Head(permissions) \notin userPerms
                 THEN Append(missing, Head(permissions)) ELSE missing)

\* the handler RequireAllPermissions(permissions...) returns
RequireAllPermissions(permissions, c) ==
    IF c.claims = NoClaims
    THEN AbortWithStatusJSON(c, 401, "not authenticated", <<>>)
    ELSE IF "UserID" \notin DOMAIN c.claims
    THEN AbortWithStatusJSON(c, 500, "invalid claims", <<>>)
    ELSE LET missing == Missing(permissions, UserPerms(c.claims), <<>>)
         IN  IF Len(missing) > 0
             THEN AbortWithStatusJSON(c, 403, "insufficient permissions", missing)
             ELSE NextHandler(c)

\* user id, username, role and permission list of claims or of a session record
Identity(c) ==
    [UserID |-> c.UserID, Username |-> c.Username, Role |-> c.Role,
     Permissions |-> c.Permissions]

(* ---------------------------- the handlers ----------------------------- *)

\* cookie field of a response: left alone, cleared (EmptyTok) or set to a token
NoCookie == 0 - 2

Response(op, status, error) ==
    [op |-> op, status |-> status, error |-> error, presented |-> EmptyTok,
     refresh |-> EmptyTok, access |-> NoAccess, cookie |-> NoCookie,
     sessions |-> <<>>]

\* what a handler run leaves behind: the store, the response, whether
\* GenerateRefreshToken was called, whether RevokeRefreshToken returned an error
Outcome(s, r, gen, revErr) == [s |-> s, resp |-> r, gen |-> gen, revErr |-> revErr]

LoginPermissions(role) ==
    IF role = "admin"
    THEN <<"ping:read", "news:read", "news:create", "news:update", "news:delete",
           "users:read", "users:update">>
    ELSE <<"ping:read", "news:read">>

\* the RefreshTokenData a handler builds: CreatedAt is time.Now()
RefreshTokenData(userID, username, role, permissions, client) ==
    [UserID |-> userID, Username |-> username, Role |-> role,
     Permissions |-> permissions, CreatedAt |-> now,
     UserAgent |-> client.ua, IP |-> client.ip]

\* Handler.Login; fresh is the token GenerateRefreshToken returns
Login(s, username, password, client, F, fresh) ==
    IF password # "password123"
    THEN Outcome(s, Response("Login", 401, "invalid credentials"), FALSE, FALSE)
    ELSE
    LET userID == "user-" \o username
        role == IF username = "admin" THEN "admin" ELSE "user"
        permissions == LoginPermissions(role)
    IN  IF "rand" \in F
        THEN Outcome(s, Response("Login", 500, "failed to generate tokens"), FALSE, FALSE)
        ELSE
        LET st == StoreRefreshToken(s, fresh,
                      RefreshTokenData(userID, username, role, permissions, client),
                      RefreshTTL, F)
        IN  IF st.err # ""
            THEN Outcome(st.s, Response("Login", 500, "failed to create session"), TRUE, FALSE)
            ELSE Outcome(st.s,
                     [Response("Login", 200, "") EXCEPT
                         !.refresh = fresh, !.cookie = fresh,
                         !.access = AccessClaims(userID, username, role, permissions, Issuer)],
                     TRUE, FALSE)

\* a Refresh that resolves the user's permissions anew from the database
Refresh_ReResolves(s, token, client, F, fresh) ==
    LET g == GetRefreshTokenData(s, token, F) IN
    IF token = EmptyTok \/ g.err # "" \/ F # {}
    THEN Outcome(s, [Response("Refresh", 401, "invalid or expired refresh token") EXCEPT
                        !.presented = token, !.cookie = EmptyTok], FALSE, FALSE)
    ELSE
    LET rv == RevokeRefreshToken(s, token, F)
        tokenData == g.data
        known == {id \in DOMAIN users : FormatUint(id) = tokenData.UserID}
        permissions == IF known = {} THEN tokenData.Permissions
                       ELSE CHOOSE row \in GetUserPermissions(DB, SetMin(known), {}).rows : TRUE
        st == StoreRefreshToken(rv.s, fresh,
                  RefreshTokenData(tokenData.UserID, tokenData.Username, tokenData.Role,
                                   permissions, client),
                  RefreshTTL, F)
    IN  Outcome(st.s,
            [Response("Refresh", 200, "") EXCEPT
                !.presented = token, !.refresh = fresh, !.cookie = fresh,
                !.access = AccessClaims(tokenData.UserID, tokenData.Username,
                                        tokenData.Role, permissions, Issuer)],
            TRUE, rv.err # "")

\* a Refresh that gives up when the revoke of the old token returns an error
Refresh_AbortsOnRevokeError(s, token, client, F, fresh) ==
    IF token = EmptyTok
    THEN Outcome(s, Response("Refresh", 401, "refresh token required"), FALSE, FALSE)
    ELSE
    LET g == GetRefreshTokenData(s, token, F) IN
    IF g.err # ""
    THEN Outcome(s, [Response("Refresh", 401, "invalid or expired refresh token") EXCEPT
                        !.presented = token, !.cookie = EmptyTok], FALSE, FALSE)
    ELSE
    LET rv == RevokeRefreshToken(s, token, F)
        tokenData == g.data
    IN  IF "rand" \in F \/ rv.err # ""
        THEN Outcome(rv.s, [Response("Refresh", 500, "failed to refresh tokens") EXCEPT
                               !.presented = token], FALSE, rv.err # "")
        ELSE
        LET st == StoreRefreshToken(rv.s, fresh,
                      RefreshTokenData(tokenData.UserID, tokenData.Username, tokenData.Role,
                                       tokenData.Permissions, client),
                      RefreshTTL, F)
        IN  IF st.err # ""
            THEN Outcome(st.s, [Response("Refresh", 500, "failed to create session") EXCEPT
                                   !.presented = token], TRUE, rv.err # "")
            ELSE Outcome(st.s,
                     [Response("Refresh", 200, "") EXCEPT
                         !.presented = token, !.refresh = fresh, !.cookie = fresh,
                         !.access = AccessClaims(tokenData.UserID, tokenData.Username,
                                                 tokenData.Role, tokenData.Permissions, Issuer)],
                     TRUE, rv.err # "")

\* Handler.Refresh; token is what getRefreshToken returned
Refresh(s, token, client, F, fresh) ==
    IF token = EmptyTok
    THEN Outcome(s, Response("Refresh", 401, "refresh token required"), FALSE, FALSE)
    ELSE
    LET g == GetRefreshTokenData(s, token, F) IN
    IF g.err # ""
    THEN Outcome(s, [Response("Refresh", 401, "invalid or expired refresh token") EXCEPT
                        !.presented = token, !.cookie = EmptyTok], FALSE, FALSE)
    ELSE
    LET rv == RevokeRefreshToken(s, token, F)
        tokenData == g.data
    IN  IF "rand" \in F
        THEN Outcome(rv.s, [Response("Refresh", 500, "failed to refresh tokens") EXCEPT
                               !.presented = token], FALSE, rv.err # "")
        ELSE
        LET st == StoreRefreshToken(rv.s, fresh,
                      RefreshTokenData(tokenData.UserID, tokenData.Username, tokenData.Role,
                                       tokenData.Permissions, client),
                      RefreshTTL, F)
        IN  IF st.err # ""
            THEN Outcome(st.s, [Response("Refresh", 500, "failed to create session") EXCEPT
                                   !.presented = token], TRUE, rv.err # "")
            ELSE Outcome(st.s,
                     [Response("Refresh", 200, "") EXCEPT
                         !.presented = token, !.refresh = fresh, !.cookie = fresh,
                         !.access = AccessClaims(tokenData.UserID, tokenData.Username,
                                                 tokenData.Role, tokenData.Permissions, Issuer)],
                     TRUE, rv.err # "")

\* a Logout that clears the cookie and leaves the session in the store
Logout_SkipsRevoke(s, token, F) ==
    Outcome(s, [Response("Logout", 200, "") EXCEPT
                   !.presented = token, !.cookie = EmptyTok], FALSE, FALSE)

\* Handler.Logout
Logout(s, token, F) ==
    LET rv == IF token # EmptyTok THEN RevokeRefreshToken(s, token, F) ELSE [err |-> "", s |-> s]
    IN  Outcome(rv.s, [Response("Logout", 200, "") EXCEPT
                          !.presented = token, !.cookie = EmptyTok], FALSE, rv.err # "")

\* Handler.LogoutAll, behind JWTAuth: userID is claims.UserID
LogoutAll(s, userID, F, TF) ==
    LET ra == RevokeAllUserTokens(s, userID, F, TF)
    IN  IF ra.err # ""
        THEN Outcome(ra.s, Response("LogoutAll", 500, "failed to logout all sessions"), FALSE, FALSE)
        ELSE Outcome(ra.s, [Response("LogoutAll", 200, "") EXCEPT !.cookie = EmptyTok], FALSE, FALSE)

\* the response entries of ListSessions: created_at, user_agent, ip
RECURSIVE FormatSessions(_)
FormatSessions(sessions) ==
    IF sessions = <<>> THEN <<>>
    ELSE <<[created_at |-> Head(sessions).CreatedAt,
            user_agent |-> Head(sessions).UserAgent, ip |-> Head(sessions).IP]>>
         \o FormatSessions(Tail(sessions))

\* Handler.ListSessions, behind JWTAuth: userID is claims.UserID
ListSessions(s, userID, F, TF) ==
    LET l == ListUserTokens(s, userID, F, TF)
    IN  IF l.err # ""
        THEN Outcome(l.s, Response("ListSessions", 500, "failed to list sessions"), FALSE, FALSE)
        ELSE Outcome(l.s, [Response("ListSessions", 200, "") EXCEPT
                              !.sessions = FormatSessions(l.result)], FALSE, FALSE)

\* GoogleHandler.findOrCreateUser
findOrCreateUser(db, googleUser, F) ==
    IF "finduser" \in F
    THEN [err |-> "failed to create user", db |-> db, id |-> 0]
    ELSE
    LET byGoogle == {id \in DOMAIN db.users : db.users[id].GoogleID = googleUser.ID}
        byEmail == {id \in DOMAIN db.users : db.users[id].Email = googleUser.Email}
    IN  IF byGoogle # {}
        THEN LET id == SetMin(byGoogle)
             IN  [err |-> "", id |-> id,
                  db |-> [db EXCEPT !.users[id].Email = googleUser.Email]]
        ELSE IF byEmail # {}
        THEN LET id == SetMin(byEmail)
             IN  [err |-> "", id |-> id,
                  db |-> [db EXCEPT !.users[id].GoogleID = googleUser.ID]]
        ELSE LET id == Cardinality(DOMAIN db.users) + 1
                 created == [db EXCEPT !.users =
                                Set(@, id, [GoogleID |-> googleUser.ID,
                                            Email |-> googleUser.Email, Role |-> "user"])]
             IN  [err |-> "", id |-> id,
                  db |-> AssignRoleToUser(created, id, "user", F).db]

\* what GoogleCallback leaves behind: an Outcome and the database
GoogleOutcome(o, db) ==
    [s |-> o.s, resp |-> o.resp, gen |-> o.gen, revErr |-> o.revErr, db |-> db]

\* GoogleHandler.GoogleCallback: the outcomes it can have, one for each order in
\* which GetUserPermissions can return the rows; credential tells whether the
\* request carries a Google token and whether Google accepts it
GoogleCallback(s, db, credential, googleUser, client, F, fresh) ==
    IF credential = "none"
    THEN {GoogleOutcome(Outcome(s, Response("GoogleCallback", 400,
                                            "access_token or code required"), FALSE, FALSE), db)}
    ELSE IF credential = "bad"
    THEN {GoogleOutcome(Outcome(s, Response("GoogleCallback", 401,
                                            "invalid Google credentials"), FALSE, FALSE), db)}
    ELSE
    LET f == findOrCreateUser(db, googleUser, F) IN
    IF f.err # ""
    THEN {GoogleOutcome(Outcome(s, Response("GoogleCallback", 500,
                                            "failed to process user"), FALSE, FALSE), f.db)}
    ELSE
    LET user == f.db.users[f.id]
        userID == FormatUint(f.id)
        Issue(permissions) ==
            IF "rand" \in F
            THEN Outcome(s, Response("GoogleCallback", 500, "failed to generate tokens"),
                         FALSE, FALSE)
            ELSE
            LET st == StoreRefreshToken(s, fresh,
                          RefreshTokenData(userID, user.Email, user.Role, permissions, client),
                          RefreshTTL, F)
            IN  IF st.err # ""
                THEN Outcome(st.s, Response("GoogleCallback", 500, "failed to create session"),
                             TRUE, FALSE)
                ELSE Outcome(st.s,
                         [Response("GoogleCallback", 200, "") EXCEPT
                             !.refresh = fresh, !.cookie = fresh,
                             !.access = AccessClaims(userID, user.Email, user.Role,
                                                     permissions, Issuer)],
                         TRUE, FALSE)
    IN  {GoogleOutcome(Issue(permissions), f.db) :
            permissions \in GetUserPermissions(f.db, f.id, F).rows}

\* what an admin handler leaves behind
AdminOutcome(db, r) == [db |-> db, resp |-> r]

\* binding:"required,min=2,max=100" on the name of a CreateRoleRequest and of an
\* UpdateRoleRequest, binding:"max=255" on the description
BindsRoleRequest(name, description) ==
    /\ Len(name) >= 2
    /\ Len(name) <= 100
    /\ Len(description) <= 255

\* CreateRole without the lookup of the name
CreateRole_SkipsLookup(db, name, description, F) ==
    IF ~BindsRoleRequest(name, description)
    THEN AdminOutcome(db, Response("CreateRole", 400, "invalid request body"))
    ELSE IF "create" \in F
    THEN AdminOutcome(db, Response("CreateRole", 500, "failed to create role"))
    ELSE AdminOutcome(
             [db EXCEPT !.roles = Set(@, db.roleSeq, [Name |-> name,
                                                      Description |-> description,
                                                      IsSystem |-> FALSE]),
                        !.roleSeq = @ + 1],
             Response("CreateRole", 201, ""))

\* admin Handler.CreateRole; F is the set of statements that fail
CreateRole(db, name, description, F) ==
    IF ~BindsRoleRequest(name, description)
    THEN AdminOutcome(db, Response("CreateRole", 400, "invalid request body"))
    ELSE IF RoleByName(db, name) # {}
    THEN AdminOutcome(db, Response("CreateRole", 409, "role already exists"))
    ELSE IF "create" \in F
    THEN AdminOutcome(db, Response("CreateRole", 500, "failed to create role"))
    ELSE AdminOutcome(
             [db EXCEPT !.roles = Set(@, db.roleSeq, [Name |-> name,
                                                      Description |-> description,
                                                      IsSystem |-> FALSE]),
                        !.roleSeq = @ + 1],
             Response("CreateRole", 201, ""))

\* UpdateRole without the check that refuses to rename a system role
UpdateRole_RenamesSystemRoles(db, id, name, description, F) ==
    IF ~BindsRoleRequest(name, description)
    THEN AdminOutcome(db, Response("UpdateRole", 400, "invalid request body"))
    ELSE IF id \notin DOMAIN db.roles
    THEN AdminOutcome(db, Response("UpdateRole", 404, "role not found"))
    ELSE IF RoleByName(db, name) \ {id} # {}
    THEN AdminOutcome(db, Response("UpdateRole", 409, "role name already exists"))
    ELSE IF "save" \in F
    THEN AdminOutcome(db, Response("UpdateRole", 500, "failed to update role"))
    ELSE AdminOutcome(
             [db EXCEPT !.roles[id].Name = name, !.roles[id].Description = description],
             Response("UpdateRole", 200, ""))

\* admin Handler.UpdateRole; id is the parsed :id parameter
UpdateRole(db, id, name, description, F) ==
    IF ~BindsRoleRequest(name, description)
    THEN AdminOutcome(db, Response("UpdateRole", 400, "invalid request body"))
    ELSE IF id \notin DOMAIN db.roles
    THEN AdminOutcome(db, Response("UpdateRole", 404, "role not found"))
    ELSE IF db.roles[id].IsSystem /\ db.roles[id].Name # name
    THEN AdminOutcome(db, Response("UpdateRole", 403, "cannot rename system roles"))
    ELSE IF RoleByName(db, name) \ {id} # {}
    THEN AdminOutcome(db, Response("UpdateRole", 409, "role name already exists"))
    ELSE IF "save" \in F
    THEN AdminOutcome(db, Response("UpdateRole", 500, "failed to update role"))
    ELSE AdminOutcome(
             [db EXCEPT !.roles[id].Name = name, !.roles[id].Description = description],
             Response("UpdateRole", 200, ""))

\* admin Handler.DeleteRole; id is the parsed :id parameter
DeleteRole(db, id, F) ==
    IF id \notin DOMAIN db.roles
    THEN AdminOutcome(db, Response("DeleteRole", 404, "role not found"))
    ELSE IF db.roles[id].IsSystem
    THEN AdminOutcome(db, Response("DeleteRole", 403, "cannot delete system roles"))
    ELSE IF "delete" \in F
    THEN AdminOutcome(db, Response("DeleteRole", 500, "failed to delete role"))
    ELSE AdminOutcome(
             [db EXCEPT !.roles = Del(@, id),
                        !.rolePermissions = {rp \in @ : rp[1] # id},
                        !.userRoles = IF "deluserroles" \in F THEN @
                                      ELSE {ur \in @ : ur[2] # id}],
             Response("DeleteRole", 200, ""))

\* admin Handler.SetRolePermissions; id is the parsed :id parameter
SetRolePermissions(db, id, permissionIDs, F) ==
    IF id \notin DOMAIN db.roles
    THEN AdminOutcome(db, Response("SetRolePermissions", 404, "role not found"))
    ELSE IF "replace" \in F
    THEN AdminOutcome(db, Response("SetRolePermissions", 500,
                                   "failed to update role permissions"))
    ELSE LET permissions == permissionIDs \cap DOMAIN db.permissions
         IN  AdminOutcome(
                 [db EXCEPT !.rolePermissions =
                     {rp \in @ : rp[1] # id} \cup {<<id, p>> : p \in permissions}],
                 Response("SetRolePermissions", 200, ""))

(* ------------------------ seeding at start-up -------------------------- *)

\* the database after AutoMigrate on an empty schema
EmptyDB ==
    [users |-> <<>>, permissions |-> <<>>, roles |-> <<>>, roleSeq |-> 1,
     rolePermissions |-> {}, userRoles |-> {}]

\* the loop of db.Where("name = ?", perm.Name).FirstOrCreate(&perm) from the i-th
\* entry of the permissions list on; F holds the names of the rows whose INSERT fails
RECURSIVE SeedPermissions(_, _, _)
SeedPermissions(db, i, F) ==
    IF i > Len(PermissionNames)
    THEN [err |-> "", db |-> db]
    ELSE LET name == PermissionNames[i]
         IN  IF \E p \in DOMAIN db.permissions : db.permissions[p].Name = name
             THEN SeedPermissions(db, i + 1, F)
             ELSE IF name \in F
             THEN [err |-> "insert failed", db |-> db]
             ELSE SeedPermissions(
                      [db EXCEPT !.permissions =
                          Set(@, Cardinality(DOMAIN @) + 1, [Name |-> name])],
                      i + 1, F)

\* the permissions a seeded role is created with: allPerms for admin (the first
\* entry), the rows found by name for the others
SeedPermissionsOf(db, i) ==
    IF i = 1
    THEN DOMAIN db.permissions
    ELSE {p \in DOMAIN db.permissions : db.permissions[p].Name \in SeedRoles[i].Permissions}

\* the loop that creates the roles that do not exist, from the i-th entry on
RECURSIVE SeedRolesFrom(_, _, _)
SeedRolesFrom(db, i, F) ==
    IF i > Len(SeedRoles)
    THEN [err |-> "", db |-> db]
    ELSE LET r == SeedRoles[i]
             id == db.roleSeq
         IN  IF RoleByName(db, r.Name) # {}
             THEN SeedRolesFrom(db, i + 1, F)
             ELSE IF r.Name \in F
             THEN [err |-> "insert failed", db |-> db]
             ELSE SeedRolesFrom(
                      [db EXCEPT !.roles = Set(@, id, [Name |-> r.Name,
                                                       Description |-> r.Description,
                                                       IsSystem |-> r.IsSystem]),
                                 !.roleSeq = id + 1,
                                 !.rolePermissions =
                                     @ \cup {<<id, p>> : p \in SeedPermissionsOf(db, i)}],
                      i + 1, F)

\* a seeding that also writes the default description over the roles it finds
SeedDefaultRolesAndPermissions_Overwrites(db, F) ==
    LET seeded == SeedPermissions(db, 1, F)
        Default(role) ==
            IF \E i \in DOMAIN SeedRoles : SeedRoles[i].Name = role.Name
            THEN [role EXCEPT !.Description =
                     SeedRoles[CHOOSE i \in DOMAIN SeedRoles :
                                   SeedRoles[i].Name = role.Name].Description]
            ELSE role
    IN  IF seeded.err # ""
        THEN seeded
        ELSE LET created == SeedRolesFrom(seeded.db, 1, F)
             IN  [created EXCEPT !.db.roles = [id \in DOMAIN @ |-> Default(@[id])]]

\* models.SeedDefaultRolesAndPermissions(db)
SeedDefaultRolesAndPermissions(db, F) ==
    LET seeded == SeedPermissions(db, 1, F)
    IN  IF seeded.err # "" THEN seeded ELSE SeedRolesFrom(seeded.db, 1, F)

\* the loop of assignDefaultRoleToExistingUsers over the users without a role
RECURSIVE assignDefaultRoleToExistingUsers(_, _, _)
assignDefaultRoleToExistingUsers(db, usersWithoutRoles, F) ==
    IF usersWithoutRoles = {}
    THEN db
    ELSE LET user == SetMin(usersWithoutRoles)
         IN  assignDefaultRoleToExistingUsers(
                 AssignRoleToUser(db, user, "user", F).db, usersWithoutRoles \ {user}, F)

\* db.Migrate after AutoMigrate: the seeding, whose error is only logged, then the
\* default role for the users that have none
Migrate(db, F) ==
    LET seeded == SeedDefaultRolesAndPermissions(db, F).db
    IN  assignDefaultRoleToExistingUsers(
            seeded,
            {u \in DOMAIN seeded.users : ~\E ur \in seeded.userRoles : ur[1] = u},
            F)

\* the database the server starts on: the migrate command has run on an empty schema
SeededDB == Migrate(EmptyDB, {})

\* no admin handler and no Migrate has run
NoAnswer == [op |-> "", status |-> 0, err |-> "", changed |-> FALSE]

(* --------------------- the sequential specification -------------------- *)

vars == <<kv, idx, idxTTL, nextTok, rotated, owner, loggedOut, revoked, req, snapshot,
         users, permissionRows, roles, roleSeq, rolePermissions, userRoles, now, minted,
         ctx, codec, answer, bulk>>

InitStores ==
    /\ kv = <<>>
    /\ idx = [u \in UserIDs |-> {}]
    /\ idxTTL = [u \in UserIDs |-> NoTTL]
    /\ nextTok = 1
    /\ rotated = [t \in TokenIds |-> "no"]
    /\ owner = [t \in TokenIds |-> ""]
    /\ loggedOut = {}
    /\ revoked = [t \in TokenIds |-> "no"]
    /\ req = [r \in Requests |-> Idle]
    /\ snapshot = [t \in TokenIds |-> NoData]
    /\ now = 0
    /\ minted = {}
    /\ ctx = NoRequest

InitBase ==
    /\ InitStores
    /\ users = SeededDB.users
    /\ permissionRows = SeededDB.permissions
    /\ roles = SeededDB.roles
    /\ roleSeq = SeededDB.roleSeq
    /\ rolePermissions = SeededDB.rolePermissions
    /\ userRoles = SeededDB.userRoles

Init == InitBase /\ codec = NoCodec /\ answer = NoAnswer /\ bulk = NoBulk

\* The failure oracle of one handler run is the set of its commands that return an
\* error. A command after the one that ends the handler is never issued, so the
\* oracle sets below list each distinguishable run once; Cmds is the run against
\* an unreachable Redis.
StoreFails == {{}, {"rand"}, {"set"}, {"sadd"}, {"expire"}}
\* (when its GET fails, RevokeRefreshToken issues no SREM)
RevokeFails == {{}, {"rget"}, {"srem"}, {"del"}, {"rget", "del"}, {"srem", "del"}}
LoginFails == StoreFails \cup {Cmds}
RefreshFails == {{"get"}, Cmds} \cup {A \cup B : A \in RevokeFails, B \in StoreFails}
LogoutFails == RevokeFails \cup {Cmds}
BulkFails == {{}, {"smembers"}, {"delidx"}, Cmds}
ListFails == {{}, {"smembers"}, {"srem"}, Cmds}
\* a request whose token has no key runs the same whichever commands fail: one
\* oracle stands for them all
OraclesFor(token, oracles) == IF token \in DOMAIN kv THEN oracles ELSE {{}}
\* the tokens on which the command inside a loop fails
TokFails(F, tokens) == IF F = Cmds THEN {TokenIds} ELSE SUBSET tokens

SetStore(s) ==
    /\ kv' = s.kv
    /\ idx' = s.idx
    /\ idxTTL' = s.ittl

\* the tokens a client can present: none, a made-up one, or one ever generated
Presentable == {EmptyTok, BogusTok} \cup {t \in TokenIds : t < nextTok}

\* a finished request: the store it leaves, the token it consumed, and the token
\* its answer handed to the caller
Finish(o) ==
    /\ o.gen => nextTok <= MaxTok
    /\ SetStore(o.s)
    /\ nextTok' = IF o.gen THEN nextTok + 1 ELSE nextTok
    /\ owner' = IF o.resp.status = 200 /\ o.resp.refresh # EmptyTok
                THEN [owner EXCEPT ![o.resp.refresh] = o.resp.access.UserID]
                ELSE owner
    /\ snapshot' = IF o.resp.status = 200 /\ o.resp.refresh # EmptyTok
                   THEN [snapshot EXCEPT ![o.resp.refresh] =
                            IF o.resp.op = "Refresh" THEN snapshot[o.resp.presented]
                            ELSE Identity(o.resp.access)]
                   ELSE snapshot

DoLogin ==
    \E username \in Usernames, password \in Passwords, client \in LoginClients,
       F \in LoginFails :
        /\ Finish(Login(Store, username, password, client, F, nextTok))
        /\ UNCHANGED <<sideVars, rotated, loggedOut, revoked, req, dbVars, gateVars>>

\* a Refresh request that meets one of the failures in oracles
RefreshWith(oracles) ==
    \E token \in Presentable, client \in Clients :
      \E F \in OraclesFor(token, oracles) :
        LET o == Refresh(Store, token, client, F, nextTok) IN
        /\ Finish(o)
        /\ rotated' = IF o.resp.status = 200
                      THEN [rotated EXCEPT ![token] = IF o.revErr THEN "dirty" ELSE "clean"]
                      ELSE rotated
        /\ UNCHANGED <<sideVars, loggedOut, revoked, req, dbVars, gateVars>>

DoRefresh == RefreshWith(RefreshFails)

DoLogout ==
    \E token \in Presentable :
      \E F \in OraclesFor(token, LogoutFails) :
        LET o == Logout(Store, token, F) IN
        /\ Finish(o)
        /\ revoked' = IF token \in DOMAIN kv
                      THEN [revoked EXCEPT ![token] = IF o.revErr THEN "dirty" ELSE "clean"]
                      ELSE revoked
        /\ UNCHANGED <<sideVars, rotated, loggedOut, req, dbVars, gateVars>>

DoLogoutAll ==
    \E userID \in LoginUserIDs, F \in BulkFails :
      \E TF \in TokFails(F, idx[userID]) :
        LET o == LogoutAll(Store, userID, F, TF) IN
        /\ Finish(o)
        /\ loggedOut' = IF o.resp.status = 200
                        THEN loggedOut \cup {t \in TokenIds : owner[t] = userID}
                        ELSE loggedOut
        /\ UNCHANGED <<sideVars, rotated, revoked, req, dbVars, gateVars>>

DoListSessions ==
    \E userID \in LoginUserIDs, F \in ListFails :
      \E TF \in TokFails(F, idx[userID]) :
        /\ Finish(ListSessions(Store, userID, F, TF))
        /\ UNCHANGED <<sideVars, rotated, loggedOut, revoked, req, dbVars, gateVars>>

\* one tick of time: the clock moves on and Redis expires the keys whose TTL
\* ran out
Tick ==
    /\ DOMAIN kv # {} \/ \E u \in UserIDs : idxTTL[u] # NoTTL
    /\ SetStore(Expired(Store))
    /\ now' = now + 1
    /\ UNCHANGED <<sideVars, nextTok, rotated, owner, snapshot, loggedOut, revoked, req, dbVars,
                   minted, ctx>>

Next ==
    \/ DoLogin
    \/ DoRefresh
    \/ DoLogout
    \/ DoLogoutAll
    \/ DoListSessions
    \/ Tick

Spec == Init /\ [][Next]_vars

(* ------------------ Refresh as interleaved store steps ------------------ *)

\* A Refresh request runs GetRefreshTokenData, RevokeRefreshToken and (after
\* GenerateTokenPair) StoreRefreshToken as three separate accesses to Redis;
\* the steps of different requests interleave freely.

\* Handler.Refresh up to the first store access: getRefreshToken. Request slots
\* are taken in order: which slot a request gets makes no difference.
RefreshStart(r, token) ==
    /\ req[r].pc = "idle"
    /\ \A q \in Requests : q < r => req[q].pc # "idle"
    /\ req' = [req EXCEPT ![r] =
                 IF token = EmptyTok
                 THEN [@ EXCEPT !.pc = "done", !.status = 401]
                 ELSE [@ EXCEPT !.pc = "get", !.token = token]]
    /\ UNCHANGED <<sideVars, storeVars, nextTok, rotated, owner, snapshot, loggedOut, revoked, dbVars, gateVars>>

\* Handler.Refresh: GetRefreshTokenData
RefreshGet(r, F) ==
    /\ req[r].pc = "get" /\ ~req[r].crashed
    /\ LET g == GetRefreshTokenData(Store, req[r].token, F)
       IN  req' = [req EXCEPT ![r] =
                     IF g.err # ""
                     THEN [@ EXCEPT !.pc = "done", !.status = 401]
                     ELSE [@ EXCEPT !.pc = "revoke", !.data = g.data]]
    /\ UNCHANGED <<sideVars, storeVars, nextTok, rotated, owner, snapshot, loggedOut, revoked, dbVars, gateVars>>

\* Handler.Refresh: RevokeRefreshToken, its error only logged
RefreshRevoke(r, F) ==
    /\ req[r].pc = "revoke" /\ ~req[r].crashed
    /\ LET rv == RevokeRefreshToken(Store, req[r].token, F)
       IN  /\ SetStore(rv.s)
           /\ req' = [req EXCEPT ![r] = [@ EXCEPT !.pc = "store", !.revErr = rv.err # ""]]
    /\ UNCHANGED <<sideVars, nextTok, rotated, owner, snapshot, loggedOut, revoked, dbVars, gateVars>>

\* Handler.Refresh: GenerateTokenPair, StoreRefreshToken and the answer
RefreshStore(r, client, F) ==
    /\ req[r].pc = "store" /\ ~req[r].crashed
    /\ IF "rand" \in F
       THEN /\ req' = [req EXCEPT ![r] = [@ EXCEPT !.pc = "done", !.status = 500]]
            /\ UNCHANGED <<storeVars, nextTok>>
       ELSE LET tokenData == req[r].data
                st == StoreRefreshToken(Store, nextTok,
                          RefreshTokenData(tokenData.UserID, tokenData.Username,
                                           tokenData.Role, tokenData.Permissions, client),
                          RefreshTTL, F)
            IN  /\ SetStore(st.s)
                /\ nextTok' = nextTok + 1
                /\ req' = [req EXCEPT ![r] =
                             [@ EXCEPT !.pc = "done", !.fresh = nextTok,
                                       !.status = IF st.err # "" THEN 500 ELSE 200]]
    /\ UNCHANGED <<sideVars, rotated, owner, snapshot, loggedOut, revoked, dbVars, gateVars>>

\* the process dies while a request is between two store accesses
Crash(r) ==
    /\ req[r].pc \in {"get", "revoke", "store"} /\ ~req[r].crashed
    /\ req' = [req EXCEPT ![r] = [@ EXCEPT !.crashed = TRUE]]
    /\ UNCHANGED <<sideVars, storeVars, nextTok, rotated, owner, snapshot, loggedOut, revoked, dbVars, gateVars>>

DoRefreshStart == \E r \in Requests, token \in Presentable : RefreshStart(r, token)

\* a login that meets no failure
LoginOk ==
    \E username \in Usernames, client \in Clients :
        /\ Finish(Login(Store, username, "password123", client, {}, nextTok))
        /\ UNCHANGED <<sideVars, rotated, loggedOut, revoked, req, dbVars, gateVars>>

\* interleaved requests against a Redis that answers every command
StepGet == \E r \in Requests : RefreshGet(r, {})
StepRevoke == \E r \in Requests : RefreshRevoke(r, {})
StepStore == \E r \in Requests, client \in Clients : RefreshStore(r, client, {})

NextInterleave ==
    \/ LoginOk
    \/ DoRefreshStart
    \/ StepGet
    \/ StepRevoke
    \/ StepStore
    \/ Tick

SpecInterleave == Init /\ [][NextInterleave]_vars

\* interleaved requests against a Redis whose commands may fail, in a process
\* that may die
DoRefreshGet == \E r \in Requests, F \in {{}, {"get"}} : RefreshGet(r, F)
DoRefreshRevoke == \E r \in Requests, F \in RevokeFails : RefreshRevoke(r, F)
DoRefreshStore == \E r \in Requests, client \in Clients, F \in StoreFails : RefreshStore(r, client, F)
DoCrash == \E r \in Requests : Crash(r)

NextRace ==
    \/ LoginOk
    \/ DoRefreshStart
    \/ DoRefreshGet
    \/ DoRefreshRevoke
    \/ DoRefreshStore
    \/ DoCrash
    \/ Tick

SpecRace == Init /\ [][NextRace]_vars

(* ------------- LogoutAll beside Refresh requests in flight -------------- *)

\* Handler.LogoutAll up to the SMEMBERS of RevokeAllUserTokens
BulkStart ==
    /\ bulk.pc = "idle"
    /\ \E userID \in LoginUserIDs :
          bulk' = [bulk EXCEPT !.pc = "del", !.user = userID, !.tokens = idx[userID]]
    /\ UNCHANGED <<codec, answer, storeVars, nextTok, rotated, owner, snapshot, loggedOut,
                   revoked, req, dbVars, gateVars>>

\* Handler.LogoutAll from the loop of RevokeAllUserTokens on: DEL of every token
\* SMEMBERS returned, DEL of the index key, and the answer
BulkDelete ==
    /\ bulk.pc = "del"
    /\ LET s1 == DelEach(Store, bulk.tokens, {})
       IN  SetStore([s1 EXCEPT !.idx[bulk.user] = {}, !.ittl[bulk.user] = NoTTL])
    /\ bulk' = [bulk EXCEPT !.pc = "done", !.status = 200]
    /\ loggedOut' = loggedOut \cup {t \in TokenIds : owner[t] = bulk.user}
    /\ UNCHANGED <<codec, answer, nextTok, rotated, owner, snapshot, revoked, req, dbVars,
                   gateVars>>

\* a login that meets no failure, noted when a LogoutAll has started before it
LoginBeside ==
    \E username \in Usernames, client \in Clients :
        /\ Finish(Login(Store, username, "password123", client, {}, nextTok))
        /\ bulk' = IF bulk.pc = "idle" THEN bulk
                   ELSE [bulk EXCEPT !.logins = @ \cup {"user-" \o username}]
        /\ UNCHANGED <<codec, answer, rotated, loggedOut, revoked, req, dbVars, gateVars>>

NextBulk ==
    \/ LoginBeside
    \/ DoRefreshStart
    \/ StepGet
    \/ StepRevoke
    \/ StepStore
    \/ BulkStart
    \/ BulkDelete

SpecBulk == Init /\ [][NextBulk]_vars

(* ------------- logins against the RBAC database, and refreshes ---------- *)

SetDB(db) ==
    /\ users' = db.users
    /\ permissionRows' = db.permissions
    /\ roles' = db.roles
    /\ roleSeq' = db.roleSeq
    /\ rolePermissions' = db.rolePermissions
    /\ userRoles' = db.userRoles

\* the failures one GoogleCallback run can meet
GoogleFails == {{}, {"finduser"}, {"assign"}, {"perms"}, {"rand"}, {"set"}}
\* the runs of GoogleCallback: without a Google token, with one Google rejects,
\* and with one Google accepts, under each failure
GoogleRuns ==
    {<<"none", {}>>, <<"bad", {}>>} \cup {<<"good", F>> : F \in GoogleFails}
\* the :id parameters and request bodies the admin handlers are called with
RoleIDInputs == {2, 3, 4}
PermissionIDInputs == {{}, {1, 4}, {2, 3}}
RoleNameInputs == {"user", "editor", "ghost"}

DoGoogleCallback ==
    \E run \in GoogleRuns, googleUser \in GoogleUsers, client \in Clients :
      \E o \in GoogleCallback(Store, DB, run[1], googleUser, client, run[2], nextTok) :
        /\ Finish(o)
        /\ SetDB(o.db)
        /\ UNCHANGED <<sideVars, rotated, loggedOut, revoked, req, gateVars>>

DoSetRolePermissions ==
    \E id \in RoleIDInputs, permissionIDs \in PermissionIDInputs, F \in {{}, {"replace"}} :
        /\ SetDB(SetRolePermissions(DB, id, permissionIDs, F).db)
        /\ UNCHANGED <<sideVars, storeVars, nextTok, rotated, owner, snapshot, loggedOut, revoked, req, gateVars>>

DoDeleteRole ==
    \E id \in RoleIDInputs, F \in {{}, {"delete"}, {"deluserroles"}} :
        /\ SetDB(DeleteRole(DB, id, F).db)
        /\ UNCHANGED <<sideVars, storeVars, nextTok, rotated, owner, snapshot, loggedOut, revoked, req, gateVars>>

DoAssignRoleToUser ==
    \E userID \in DOMAIN users, roleName \in RoleNameInputs, F \in {{}, {"assign"}} :
        /\ SetDB(AssignRoleToUser(DB, userID, roleName, F).db)
        /\ UNCHANGED <<sideVars, storeVars, nextTok, rotated, owner, snapshot, loggedOut, revoked, req, gateVars>>

DoRemoveRoleFromUser ==
    \E userID \in DOMAIN users, roleName \in RoleNameInputs, F \in {{}, {"remove"}} :
        /\ SetDB(RemoveRoleFromUser(DB, userID, roleName, F).db)
        /\ UNCHANGED <<sideVars, storeVars, nextTok, rotated, owner, snapshot, loggedOut, revoked, req, gateVars>>

\* refreshes that meet no failure, or one in the revoke, or one in the store
RotateSession == RefreshWith({{}, {"del"}, {"set"}})

NextSnapshot ==
    \/ DoGoogleCallback
    \/ RotateSession
    \/ DoSetRolePermissions
    \/ DoDeleteRole
    \/ DoAssignRoleToUser
    \/ DoRemoveRoleFromUser

SpecSnapshot == Init /\ [][NextSnapshot]_vars

(* ------------------ requests through the middleware chain --------------- *)

JWTAuthMW == [mw |-> "JWTAuth", args |-> <<>>]
Endpoint == [mw |-> "Endpoint", args |-> <<>>]

\* the guards routes are registered with: those of the ping and admin routes,
\* and further argument lists
Guards ==
    {[mw |-> "RequireRole", args |-> a] :
        a \in {<<"admin">>, <<"editor", "admin">>, <<>>}}
    \cup {[mw |-> "RequirePermission", args |-> a] :
        a \in {<<"ping:read">>, <<"roles:read", "news:create">>, <<"roles:read">>, <<>>}}
    \cup {[mw |-> "RequireAllPermissions", args |-> a] :
        a \in {<<"news:read">>, <<"users:delete", "news:read", "roles:read">>, <<>>}}

\* handler chains: behind the gate (as every route of the server is), behind the
\* gate and a guard, and a guard on a route the gate was left off
Chains ==
    {<<JWTAuthMW, Endpoint>>}
    \cup {<<JWTAuthMW, g, Endpoint>> : g \in Guards}
    \cup {<<g, Endpoint>> : g \in Guards}

\* tokens somebody without the private key can make, from scratch or out of a
\* token the server signed
AdminClaims ==
    TimedClaims(AccessClaims("user-admin", "admin", "admin", LoginPermissions("admin"), Issuer),
                MaxClock + 1, 0)
MadeUpTokens ==
    {SignedString("RS256", AdminClaims, "attacker-private"),
     SignedString("HS256", AdminClaims, PublicKey),
     SignedString("none", AdminClaims, "")}
DerivedTokens(token) ==
    {[token EXCEPT !.claims.Role = "admin"],
     [token EXCEPT !.claims.ExpiresAt = NoTime],
     [token EXCEPT !.segments = 2]}

Bearer(token) == BearerPrefix \o <<[jwt |-> token]>>

\* the Authorization header values requests carry
Headers ==
    {<<>>, BearerPrefix, Chars(<<"B", "e", "a", "r", "e", "r">>)}
    \cup {Bearer(token) : token \in minted \cup MadeUpTokens}
    \cup UNION {{Bearer(d) : d \in DerivedTokens(token)} : token \in minted}
    \cup UNION {{<<[jwt |-> token]>>,
                 Chars(<<"b", "e", "a", "r", "e", "r", " ">>) \o <<[jwt |-> token]>>,
                 Chars(<<"B", "e", "a", "r", "e", "r">>) \o <<[jwt |-> token]>>,
                 BearerPrefix \o Chars(<<" ">>) \o <<[jwt |-> token]>>} : token \in minted}

\* A chain reads the clock once, in the gate, and nothing a login writes: a
\* login or a tick in the middle of a chain leaves the context as one just
\* before or just after the chain does, so they are taken between chains.

\* a login that meets no failure, and the access token of its answer
GateLogin ==
    \E username \in Usernames, client \in Clients :
        LET o == Login(Store, username, "password123", client, {}, nextTok) IN
        /\ ctx = NoRequest
        /\ Finish(o)
        /\ minted' = minted \cup {GenerateAccessToken(o.resp.access, AccessTTL, now)}
        /\ UNCHANGED <<sideVars, rotated, loggedOut, revoked, req, dbVars, now, ctx>>

\* a request arrives on a route and gets the context
Arrive ==
    \E chain \in Chains, header \in Headers :
        /\ ctx = NoRequest
        /\ ctx' = [NoRequest EXCEPT !.chain = chain, !.header = header]
        /\ UNCHANGED <<sideVars, storeVars, nextTok, rotated, owner, snapshot, loggedOut, revoked, req, dbVars,
                       now, minted>>

\* the handler of the chain that is to run next is mw
Running(mw) ==
    /\ ctx.chain # <<>>
    /\ ~ctx.aborted /\ ~ctx.reached
    /\ ctx.chain[ctx.index].mw = mw

RunJWTAuth ==
    /\ Running("JWTAuth")
    /\ ctx' = [JWTAuth(ctx, now) EXCEPT !.at = now]
    /\ UNCHANGED <<sideVars, storeVars, nextTok, rotated, owner, snapshot, loggedOut, revoked, req, dbVars,
                   now, minted>>

RunRequireRole ==
    /\ Running("RequireRole")
    /\ ctx' = RequireRole(ctx.chain[ctx.index].args, ctx)
    /\ UNCHANGED <<sideVars, storeVars, nextTok, rotated, owner, snapshot, loggedOut, revoked, req, dbVars,
                   now, minted>>

RunRequirePermission ==
    /\ Running("RequirePermission")
    /\ ctx' = RequirePermission(ctx.chain[ctx.index].args, ctx)
    /\ UNCHANGED <<sideVars, storeVars, nextTok, rotated, owner, snapshot, loggedOut, revoked, req, dbVars,
                   now, minted>>

RunRequireAllPermissions ==
    /\ Running("RequireAllPermissions")
    /\ ctx' = RequireAllPermissions(ctx.chain[ctx.index].args, ctx)
    /\ UNCHANGED <<sideVars, storeVars, nextTok, rotated, owner, snapshot, loggedOut, revoked, req, dbVars,
                   now, minted>>

\* the route's own handler
RunEndpoint ==
    /\ Running("Endpoint")
    /\ ctx' = [ctx EXCEPT !.reached = TRUE, !.status = 200]
    /\ UNCHANGED <<sideVars, storeVars, nextTok, rotated, owner, snapshot, loggedOut, revoked, req, dbVars,
                   now, minted>>

\* the chain is over, the answer written: the context goes back to the pool
Respond ==
    /\ ctx.aborted \/ ctx.reached
    /\ ctx' = NoRequest
    /\ UNCHANGED <<sideVars, storeVars, nextTok, rotated, owner, snapshot, loggedOut, revoked, req, dbVars,
                   now, minted>>

\* the clock moves on
Advance ==
    /\ ctx = NoRequest
    /\ now < MaxClock
    /\ now' = now + 1
    /\ UNCHANGED <<sideVars, storeVars, nextTok, rotated, owner, snapshot, loggedOut, revoked, req, dbVars,
                   minted, ctx>>

NextGate ==
    \/ GateLogin
    \/ Arrive
    \/ RunJWTAuth
    \/ RunRequireRole
    \/ RunRequirePermission
    \/ RunRequireAllPermissions
    \/ RunEndpoint
    \/ Respond
    \/ Advance

SpecGate == Init /\ [][NextGate]_vars

(* ------------- sessions ending while access tokens are in use ----------- *)

\* The session handlers and the requests through the gate in one server: the
\* handlers run between the chains, as in SpecGate.

\* a Refresh, and the access token of its answer
GateRefresh ==
    \E token \in Presentable, client \in Clients :
      \E F \in OraclesFor(token, {{}, {"del"}}) :
        LET o == Refresh(Store, token, client, F, nextTok) IN
        /\ ctx = NoRequest
        /\ Finish(o)
        /\ rotated' = IF o.resp.status = 200
                      THEN [rotated EXCEPT ![token] = IF o.revErr THEN "dirty" ELSE "clean"]
                      ELSE rotated
        /\ minted' = IF o.resp.status = 200
                     THEN minted \cup {GenerateAccessToken(o.resp.access, AccessTTL, now)}
                     ELSE minted
        /\ UNCHANGED <<sideVars, loggedOut, revoked, req, dbVars, now, ctx>>

GateLogout == ctx = NoRequest /\ DoLogout

GateLogoutAll == ctx = NoRequest /\ DoLogoutAll

\* a request for GET /auth/sessions arrives with an access token the server
\* handed out
ArriveWithToken ==
    \E token \in minted :
        /\ ctx = NoRequest
        /\ ctx' = [NoRequest EXCEPT !.chain = <<JWTAuthMW, Endpoint>>,
                                    !.header = Bearer(token)]
        /\ UNCHANGED <<sideVars, storeVars, nextTok, rotated, owner, snapshot, loggedOut, revoked, req,
                       dbVars, now, minted>>

\* the clock moves on and Redis expires the keys whose TTL ran out
Pass ==
    /\ ctx = NoRequest
    /\ now < MaxClock
    /\ now' = now + 1
    /\ SetStore(Expired(Store))
    /\ UNCHANGED <<sideVars, nextTok, rotated, owner, snapshot, loggedOut, revoked, req, dbVars,
                   minted, ctx>>

NextStateless ==
    \/ GateLogin
    \/ GateRefresh
    \/ GateLogout
    \/ GateLogoutAll
    \/ ArriveWithToken
    \/ RunJWTAuth
    \/ RunEndpoint
    \/ Respond
    \/ Pass

SpecStateless == Init /\ [][NextStateless]_vars

(* ------------------------- the codec on its own ------------------------- *)

\* the arguments GenerateAccessToken is called with
ExpiryInputs == 1..(AccessTTL + 1)
ClaimsInputs ==
    {AccessClaims(userID, "carol", role, permissions, issuer) :
        userID \in {"", "42"}, role \in {"user", "admin"},
        permissions \in {<<>>, <<"ping:read", "news:read">>, <<"news:read", "ping:read">>},
        issuer \in {"", Issuer}}
\* the private key of the process that signs: this one's, or another key pair's
SigningKeys == {PrivateKey, "other-private"}

InitCodec ==
    /\ InitBase
    /\ \E claims \in ClaimsInputs, expiryMins \in ExpiryInputs, key \in SigningKeys :
          codec = [claims |-> claims, expiryMins |-> expiryMins, key |-> key,
                   issued |-> NoTime, token |-> NoAccess, at |-> NoTime,
                   result |-> NoData]
    /\ answer = NoAnswer
    /\ bulk = NoBulk

\* GenerateAccessToken is called, in the process that holds codec.key
CodecGenerate ==
    /\ codec.token = NoAccess
    /\ codec' = [codec EXCEPT
                    !.issued = now,
                    !.token = IF codec.key = PrivateKey
                              THEN GenerateAccessToken(codec.claims, codec.expiryMins, now)
                              ELSE SignedString("RS256",
                                       TimedClaims(codec.claims, codec.expiryMins, now),
                                       codec.key)]
    /\ UNCHANGED <<storeVars, nextTok, rotated, owner, snapshot, loggedOut, revoked, req,
                   dbVars, gateVars, answer, bulk>>

\* ValidateToken is called on the token string
CodecValidate ==
    /\ codec.token # NoAccess
    /\ codec' = [codec EXCEPT
                    !.at = now,
                    !.result = ValidateToken(<<[jwt |-> codec.token]>>, now)]
    /\ UNCHANGED <<storeVars, nextTok, rotated, owner, snapshot, loggedOut, revoked, req,
                   dbVars, gateVars, answer, bulk>>

NextCodec ==
    \/ CodecGenerate
    \/ CodecValidate
    \/ Advance

SpecCodec == InitCodec /\ [][NextCodec]_vars

(* ------------------------- role administration ------------------------- *)

\* the roles table hands out the ids 1..MaxRoleID
MaxRoleID == 4

AdminRoleIDs == 1..MaxRoleID
AdminNames == {"admin", "editor", "ops", "x"}
AdminDescriptions == {"edited"}
\* permission_ids of a SetRolePermissionsRequest: a seeded row and a missing one
AdminPermissionIDs == {{1, 4}}
\* the rows whose INSERT fails in one run of the seeding
SeedFails == {{}, {"news:create"}, {"editor"}}

\* the migrate command has not run yet
InitAdmin ==
    /\ InitStores
    /\ users = EmptyDB.users
    /\ permissionRows = EmptyDB.permissions
    /\ roles = EmptyDB.roles
    /\ roleSeq = EmptyDB.roleSeq
    /\ rolePermissions = EmptyDB.rolePermissions
    /\ userRoles = EmptyDB.userRoles
    /\ codec = NoCodec
    /\ answer = NoAnswer
    /\ bulk = NoBulk

\* a run leaves the database db behind and answers with status and err
AdminFinish(op, db, status, err) ==
    /\ db.roleSeq <= MaxRoleID + 1
    /\ SetDB(db)
    /\ answer' = [op |-> op, status |-> status, err |-> err, changed |-> db # DB]
    /\ UNCHANGED <<codec, bulk, storeVars, nextTok, rotated, owner, snapshot, loggedOut, revoked,
                   req, gateVars>>

\* the tables exist: the migrate command has run
Serving == answer.op # ""

\* the migrate command runs db.Migrate, before the server starts or beside it
DoMigrate ==
    \E F \in SeedFails :
        AdminFinish("Migrate", Migrate(DB, F), 0, SeedDefaultRolesAndPermissions(DB, F).err)

AdminCreateRole ==
    /\ Serving
    /\ \E name \in AdminNames, description \in AdminDescriptions, F \in {{}, {"create"}} :
          LET o == CreateRole(DB, name, description, F)
          IN  AdminFinish("CreateRole", o.db, o.resp.status, o.resp.error)

AdminUpdateRole ==
    /\ Serving
    /\ \E id \in AdminRoleIDs, name \in AdminNames, description \in AdminDescriptions,
          F \in {{}, {"save"}} :
          LET o == UpdateRole(DB, id, name, description, F)
          IN  AdminFinish("UpdateRole", o.db, o.resp.status, o.resp.error)

AdminDeleteRole ==
    /\ Serving
    /\ \E id \in AdminRoleIDs, F \in {{}, {"delete"}} :
          LET o == DeleteRole(DB, id, F)
          IN  AdminFinish("DeleteRole", o.db, o.resp.status, o.resp.error)

AdminSetRolePermissions ==
    /\ Serving
    /\ \E id \in AdminRoleIDs, permissionIDs \in AdminPermissionIDs, F \in {{}, {"replace"}} :
          LET o == SetRolePermissions(DB, id, permissionIDs, F)
          IN  AdminFinish("SetRolePermissions", o.db, o.resp.status, o.resp.error)

NextAdmin ==
    \/ DoMigrate
    \/ AdminCreateRole
    \/ AdminUpdateRole
    \/ AdminDeleteRole
    \/ AdminSetRolePermissions

SpecAdmin == InitAdmin /\ [][NextAdmin]_vars

\* ---------------------------------------------------------------------------
\* the admin routes behind the gate and the role check
\* ---------------------------------------------------------------------------

\* the handlers Handler.RegisterRoutes registers on the /admin group
AdminHandlers ==
    {"ListPermissions", "ListRoles", "GetRole", "CreateRole", "UpdateRole", "DeleteRole",
     "SetRolePermissions"}

\* the /admin group without admin.Use(middleware.RequireRole("admin"))
RegisterRoutes_WithoutRoleCheck(handler) ==
    <<JWTAuthMW, [mw |-> handler, args |-> <<>>]>>

\* Handler.RegisterRoutes: the chain of a route of the /admin group, after
\* admin.Use(middleware.JWTAuth()) and admin.Use(middleware.RequireRole("admin"))
RegisterRoutes(handler) ==
    <<JWTAuthMW, [mw |-> "RequireRole", args |-> <<"admin">>], [mw |-> handler, args |-> <<>>]>>

\* admin Handler.ListPermissions, Handler.ListRoles and Handler.GetRole read
\* and answer
ListPermissions(db) == AdminOutcome(db, Response("ListPermissions", 200, ""))
ListRoles(db) == AdminOutcome(db, Response("ListRoles", 200, ""))
GetRole(db, id) ==
    IF id \notin DOMAIN db.roles
    THEN AdminOutcome(db, Response("GetRole", 404, "role not found"))
    ELSE AdminOutcome(db, Response("GetRole", 200, ""))

\* the :id parameters and the bodies of the requests on the admin routes
RouteRoleIDs == {2, 3}
RouteNames == {"ops"}
RoutePermissionIDs == {{1, 4}}

\* the Authorization header values the requests on these routes carry: none,
\* a token of a login, one signed with another key, and a token of a login with
\* the role claim rewritten
RouteHeaders ==
    {<<>>}
    \cup {Bearer(token) :
             token \in minted \cup {SignedString("RS256", AdminClaims, "attacker-private")}}
    \cup {Bearer([token EXCEPT !.claims.Role = "admin"]) : token \in minted}

\* a request arrives on an admin route, or on a route behind the gate alone
ArriveRoute ==
    \E chain \in {RegisterRoutes(handler) : handler \in AdminHandlers} \cup {<<JWTAuthMW, Endpoint>>},
       header \in RouteHeaders :
        /\ ctx = NoRequest
        /\ ctx' = [NoRequest EXCEPT !.chain = chain, !.header = header]
        /\ UNCHANGED <<sideVars, storeVars, nextTok, rotated, owner, snapshot, loggedOut, revoked, req, dbVars,
                       now, minted>>

\* the admin handler at the end of the chain has run and left o behind
Handled(o) ==
    /\ o.db.roleSeq <= MaxRoleID + 1
    /\ SetDB(o.db)
    /\ ctx' = [ctx EXCEPT !.reached = TRUE, !.status = o.resp.status]
    /\ UNCHANGED <<sideVars, storeVars, nextTok, rotated, owner, snapshot, loggedOut, revoked, req,
                   now, minted>>

RunListPermissions == Running("ListPermissions") /\ Handled(ListPermissions(DB))

RunListRoles == Running("ListRoles") /\ Handled(ListRoles(DB))

RunGetRole ==
    /\ Running("GetRole")
    /\ \E id \in RouteRoleIDs : Handled(GetRole(DB, id))

RunCreateRole ==
    /\ Running("CreateRole")
    /\ \E name \in RouteNames, F \in {{}, {"create"}} : Handled(CreateRole(DB, name, "", F))

RunUpdateRole ==
    /\ Running("UpdateRole")
    /\ \E id \in RouteRoleIDs, name \in RouteNames, F \in {{}, {"save"}} :
          Handled(UpdateRole(DB, id, name, "edited", F))

RunDeleteRole ==
    /\ Running("DeleteRole")
    /\ \E id \in RouteRoleIDs, F \in {{}, {"delete"}} : Handled(DeleteRole(DB, id, F))

RunSetRolePermissions ==
    /\ Running("SetRolePermissions")
    /\ \E id \in RouteRoleIDs, permissionIDs \in RoutePermissionIDs, F \in {{}, {"replace"}} :
          Handled(SetRolePermissions(DB, id, permissionIDs, F))

\* a Google login between two chains, one that meets no failure
GoogleLoginBeside ==
    \E googleUser \in GoogleUsers, client \in Clients :
      \E o \in GoogleCallback(Store, DB, "good", googleUser, client, {}, nextTok) :
        /\ ctx = NoRequest
        /\ Finish(o)
        /\ SetDB(o.db)
        /\ UNCHANGED <<sideVars, rotated, loggedOut, revoked, req, gateVars>>

NextRoutes ==
    \/ GateLogin
    \/ GoogleLoginBeside
    \/ ArriveRoute
    \/ RunJWTAuth
    \/ RunRequireRole
    \/ RunEndpoint
    \/ RunListPermissions
    \/ RunListRoles
    \/ RunGetRole
    \/ RunCreateRole
    \/ RunUpdateRole
    \/ RunDeleteRole
    \/ RunSetRolePermissions
    \/ Respond
    \/ Advance

SpecRoutes == Init /\ [][NextRoutes]_vars

(* ------------------- claims on the sequential handlers ------------------ *)

\* what a Refresh presenting token would answer now, under oracle F
RefreshAnswer(token, F) ==
    Refresh(Store, token, CHOOSE c \in Clients : TRUE, F, nextTok).resp

InvalidOrExpired(r) ==
    r.status = 401 /\ r.error = "invalid or expired refresh token"

C2_NoRefreshAfterLogoutAll ==
    \A t \in loggedOut : \A F \in RefreshFails : RefreshAnswer(t, F).status = 401

\* C10: while Redis is unreachable (every command fails), Login with valid
\* credentials and Refresh of a live token answer with a 5xx status, not with the
\* 401 given for a token that is not found.
C10_StoreDownIs5xx ==
    /\ \A username \in Usernames, client \in Clients :
          Login(Store, username, "password123", client, Cmds, nextTok).resp.status >= 500
    /\ \A t \in DOMAIN kv :
          /\ RefreshAnswer(t, Cmds).status >= 500
          /\ RefreshAnswer(t, Cmds).error # RefreshAnswer(BogusTok, {}).error

(* ------------------- claims on the interleaved Refresh ------------------ *)

\* C3: of the Refresh requests that present the same token, whatever the
\* interleaving of their store steps, at most one answers 200 with a new pair.
C3_AtMostOneExchange ==
    \A r1, r2 \in Requests :
        (/\ r1 # r2
         /\ req[r1].token = req[r2].token
         /\ req[r1].status = 200) => req[r2].status # 200

Resolves(token) == GetRefreshTokenData(Store, token, {}).err = ""

C5_RefreshKeepsSnapshot ==
    /\ \A t \in DOMAIN kv :
          snapshot[t] # NoData => Identity(Unmarshal(kv[t].json)) = snapshot[t]
    /\ \A t \in DOMAIN kv, client \in Clients, F \in RefreshFails :
          LET o == Refresh(Store, t, client, F, nextTok)
          IN  (snapshot[t] # NoData /\ o.resp.status = 200) =>
                  /\ Identity(o.resp.access) = snapshot[t]
                  /\ Identity(Unmarshal(o.s.kv[o.resp.refresh].json)) = snapshot[t]

\* a session obtained by a refresh whose permission list is no longer what the
\* database resolves for its user
C5_Witness ==
    \E t \in DOMAIN kv, p \in TokenIds, id \in DOMAIN users :
        /\ rotated[p] # "no" /\ p < t /\ snapshot[p] = snapshot[t]
        /\ snapshot[t] # NoData
        /\ snapshot[t].Permissions # <<>>
        /\ FormatUint(id) = snapshot[t].UserID
        /\ snapshot[t].Permissions \notin GetUserPermissions(DB, id, {}).rows
        /\ Identity(Unmarshal(kv[t].json)).Permissions = snapshot[t].Permissions

(* ------------------- claims on the access-control gate ------------------ *)

Range(seq) == {seq[i] : i \in DOMAIN seq}

\* the chain of the request begins with the gate
GateFirst == ctx.chain # <<>> /\ ctx.chain[1].mw = "JWTAuth"
\* ... and the gate has run
GateRan == GateFirst /\ (ctx.index > 1 \/ ctx.aborted)

\* header is "Bearer " and a token the server signed, not expired at time t
Admissible(header, t) ==
    \E token \in minted : header = Bearer(token) /\ t < token.claims.ExpiresAt

GuardRan(i) == ctx.index > i \/ (ctx.aborted /\ ctx.index = i)
\* ... and let the request pass
GuardPassed(i) == ctx.index > i
\* ... or aborted the chain with status
GuardAborted(i, status) == ctx.aborted /\ ctx.index = i /\ ctx.status = status /\ ~ctx.reached

\* C7: with claims attached, RequirePermission(required...) passes the request
\* if and only if some required permission is among the claims' permissions (an
\* empty required list never passes); otherwise it aborts with 403 and the
\* "required" field of the answer is the whole required list.
C7_RequirePermissionAnyOf ==
    \A i \in DOMAIN ctx.chain :
        (ctx.chain[i].mw = "RequirePermission" /\ ctx.claims # NoClaims /\ GuardRan(i)) =>
            LET required == ctx.chain[i].args IN
            IF Range(required) \cap Range(ctx.claims.Permissions) # {}
            THEN GuardPassed(i)
            ELSE GuardAborted(i, 403) /\ ctx.body.list = required

\* a user holding none of two required permissions is refused, both listed
C7_Witness ==
    \E i \in DOMAIN ctx.chain :
        /\ ctx.chain[i].mw = "RequirePermission" /\ Len(ctx.chain[i].args) > 1
        /\ ctx.claims # NoClaims
        /\ GuardAborted(i, 403)
        /\ ctx.body.list = ctx.chain[i].args

\* C8: with claims attached, RequireAllPermissions(required...) passes the
\* request if and only if every required permission is among the claims'
\* permissions; otherwise it aborts with 403 and the "missing" field is the
\* required permissions not held, in the order required.
C8_RequireAllPermissionsAllOf ==
    \A i \in DOMAIN ctx.chain :
        (ctx.chain[i].mw = "RequireAllPermissions" /\ ctx.claims # NoClaims /\ GuardRan(i)) =>
            LET required == ctx.chain[i].args
                NotHeld(p) == p \notin Range(ctx.claims.Permissions)
            IN  IF Range(required) \subseteq Range(ctx.claims.Permissions)
                THEN GuardPassed(i)
                ELSE GuardAborted(i, 403) /\ ctx.body.list = SelectSeq(required, NotHeld)

\* a user holding one of three required permissions is refused, the other two
\* listed as missing
C8_Witness ==
    \E i \in DOMAIN ctx.chain :
        /\ ctx.chain[i].mw = "RequireAllPermissions"
        /\ ctx.claims # NoClaims
        /\ GuardAborted(i, 403)
        /\ Len(ctx.body.list) > 1
        /\ Len(ctx.body.list) < Len(ctx.chain[i].args)

\* C9: with claims attached, RequireRole(roles...) passes the request if and
\* only if the claims' role is one of the listed roles, and otherwise aborts
\* with 403; with no claims attached, RequireRole, RequirePermission and
\* RequireAllPermissions all abort with 401.
C9_RequireRoleAndNoClaims ==
    \A i \in DOMAIN ctx.chain :
        /\ (ctx.chain[i].mw = "RequireRole" /\ ctx.claims # NoClaims /\ GuardRan(i)) =>
               IF ctx.claims.Role \in Range(ctx.chain[i].args)
               THEN GuardPassed(i)
               ELSE GuardAborted(i, 403)
        /\ (/\ ctx.chain[i].mw \in {"RequireRole", "RequirePermission", "RequireAllPermissions"}
            /\ ctx.claims = NoClaims /\ GuardRan(i)) => GuardAborted(i, 401)

\* an admin passed a role guard that lists admin second
C9_Witness ==
    \E i \in DOMAIN ctx.chain :
        /\ ctx.chain[i].mw = "RequireRole" /\ Len(ctx.chain[i].args) > 1
        /\ ctx.claims # NoClaims
        /\ ctx.claims.Role = ctx.chain[i].args[2]
        /\ GuardPassed(i) /\ ctx.reached

(* ------------------------------- Logout -------------------------------- *)

\* the token resolves in store s
ResolvesIn(s, token) == GetRefreshTokenData(s, token, {}).err = ""

\* Logout answers 200 to every presented token under every failure
LogoutAnswers200 ==
    \A token \in Presentable : \A F \in LogoutFails :
        LET o == Logout(Store, token, F)
        IN  o.resp.status = 200 /\ o.resp.cookie = EmptyTok

C12_LogoutAllBestEffort ==
    \A userID \in LoginUserIDs : \A F \in BulkFails :
      \A TF \in TokFails(F, idx[userID]) :
        LET ra == RevokeAllUserTokens(Store, userID, F, TF)
            o == LogoutAll(Store, userID, F, TF)
        IN  /\ ra.err # "" <=> ("smembers" \in F \/ "delidx" \in F)
            /\ o.resp.status = IF ra.err = "" THEN 200 ELSE 500
            /\ ra.err = "" =>
                  /\ \A t \in idx[userID] \ TF : t \notin DOMAIN ra.s.kv
                  /\ ra.s.idx[userID] = {}
                  /\ ra.s.ittl[userID] = NoTTL
            /\ "smembers" \notin F =>
                  \A t \in idx[userID] \ TF : t \notin DOMAIN ra.s.kv

\* a LogoutAll answered 200 over two sessions of one user: the DEL of one
\* record failed, the other record and the index are gone
C12_Witness ==
    \E t1, t2 \in loggedOut :
        /\ t1 # t2 /\ owner[t1] = owner[t2]
        /\ t1 \in DOMAIN kv /\ t2 \notin DOMAIN kv
        /\ idx[owner[t1]] = {}
        /\ rotated[t1] = "no" /\ rotated[t2] = "no"

(* ----------------------------- ListSessions ---------------------------- *)

\* the refresh sessions of a user that are live: handed out by a 200 answer of
\* Login or Refresh, and since then neither presented to a Logout, nor rotated
\* by a Refresh, nor covered by a LogoutAll, nor expired
LiveSessions(userID) ==
    {t \in DOMAIN kv : /\ owner[t] = userID
                        /\ revoked[t] = "no" /\ rotated[t] = "no"
                        /\ t \notin loggedOut}

\* what ListSessions is to show of the session of token t
SessionEntry(t) ==
    LET data == Unmarshal(kv[t].json)
    IN  [created_at |-> data.CreatedAt, user_agent |-> data.UserAgent, ip |-> data.IP]

\* the records in the store that carry the user's id
RecordsOf(userID) == {t \in DOMAIN kv : Unmarshal(kv[t].json).UserID = userID}

\* C13: ListSessions, meeting no failure, answers 200 with exactly one entry
\* (created_at, user_agent, ip and nothing else) per live session of the user:
\* the entries are those of a set of the user's records that holds every live
\* session, one entry each; for a user without a session, two logins followed
\* by a Logout of the first leave one entry, that of the second login.
C13_ListSessionsExact ==
    \A username \in Usernames :
        LET userID == "user-" \o username
            o == ListSessions(Store, userID, {}, {})
        IN  /\ o.resp.status = 200
            /\ \E S \in SUBSET RecordsOf(userID) :
                  /\ LiveSessions(userID) \subseteq S
                  /\ \E order \in Orderings(S) :
                        o.resp.sessions = [i \in DOMAIN order |-> SessionEntry(order[i])]
            /\ \A c1, c2 \in LoginClients :
                  LET o1 == Login(Store, username, "password123", c1, {}, nextTok)
                      o2 == Login(o1.s, username, "password123", c2, {}, nextTok + 1)
                      o3 == Logout(o2.s, nextTok, {})
                      l == ListSessions(o3.s, userID, {}, {})
                  IN  (\A t \in DOMAIN kv : owner[t] # userID) =>
                        l.resp.sessions =
                            <<[created_at |-> now, user_agent |-> c2.ua, ip |-> c2.ip]>>

(* ---------------------- stateless access tokens ------------------------ *)

\* the gate's answer to a request that carries token at time t
GateAnswer(token, t) == JWTAuth([NoRequest EXCEPT !.header = Bearer(token)], t)

\* C14: whatever has since happened to the refresh sessions (Logout, LogoutAll,
\* rotation, expiry), an access token the server handed out passes the gate at
\* every instant from its issue to just before its expires-at, with its claims.
C14_AccessTokenStateless ==
    /\ \A token \in minted : \A t \in 0..MaxClock :
          (token.claims.IssuedAt <= t /\ t < token.claims.ExpiresAt) =>
              /\ ~GateAnswer(token, t).aborted
              /\ GateAnswer(token, t).claims = UnmarshalClaims(token.claims)
    /\ \A token \in minted :
          (GateRan /\ ctx.header = Bearer(token) /\ ctx.at < token.claims.ExpiresAt) =>
              ~ctx.aborted /\ ctx.claims = UnmarshalClaims(token.claims)

\* a request with a user's access token has passed the gate and reached the
\* handler some time after one session of the user was rotated, one was logged
\* out, a LogoutAll covered both, and no record of the user is left
C14_Witness ==
    /\ GateRan /\ ctx.reached /\ ~ctx.aborted
    /\ ctx.claims # NoClaims
    /\ ctx.claims.IssuedAt < ctx.at
    /\ RecordsOf(ctx.claims.UserID) = {}
    /\ \E t1, t2 \in loggedOut :
          /\ owner[t1] = ctx.claims.UserID /\ owner[t2] = ctx.claims.UserID
          /\ rotated[t1] = "clean" /\ revoked[t2] = "clean"

(* --------------------------- the codec on its own ----------------------- *)

\* ValidateToken has been applied to a token GenerateAccessToken made with the
\* process's own key
Validated == codec.result # NoData /\ codec.key = PrivateKey

\* C15 as stated: a correctly signed token is accepted at every instant before
\* the issue instant plus the expiry minutes, and from then on rejected, as
\* expired.
C15_ExpiryFromIssueInstant ==
    Validated =>
        LET expiresAt == codec.issued + codec.expiryMins * Minute
        IN  IF codec.at < expiresAt
            THEN codec.result.err = ""
            ELSE codec.result.err = "token is expired"

\* C15, amended: a correctly signed token is accepted at every instant t with
\* iat <= t < exp and rejected, as expired, at every t >= exp, where iat is the
\* issue instant truncated to the precision of a NumericDate and exp is iat
\* plus the expiry minutes.
C15_ExpiryFromIssuedAt ==
    Validated =>
        LET issuedAt == NewNumericDate(codec.issued)
            expiresAt == issuedAt + codec.expiryMins * Minute
        IN  /\ codec.token.claims.IssuedAt = issuedAt
            /\ codec.token.claims.ExpiresAt = expiresAt
            /\ issuedAt <= codec.at
            /\ IF codec.at < expiresAt
               THEN codec.result.err = ""
               ELSE codec.result.err = "token is expired"

\* a token issued between two ticks of NumericDate is rejected, as expired, at
\* the very instant of its exp
C15_Witness ==
    /\ Validated
    /\ NewNumericDate(codec.issued) # codec.issued
    /\ codec.at = codec.token.claims.ExpiresAt
    /\ codec.result.err = "token is expired"

\* C16: ValidateToken applied at once to the string GenerateAccessToken
\* returned succeeds and returns the user id, username, role, permission list
\* (in order) and issuer that went in; a token signed with the key of another
\* key pair is rejected, whenever it is validated.
C16_RoundTrip ==
    /\ (Validated /\ codec.at = codec.issued) =>
          /\ codec.result.err = ""
          /\ codec.result.claims.UserID = codec.claims.UserID
          /\ codec.result.claims.Username = codec.claims.Username
          /\ codec.result.claims.Role = codec.claims.Role
          /\ codec.result.claims.Permissions = codec.claims.Permissions
          /\ codec.result.claims.Issuer = codec.claims.Issuer
    /\ (codec.result # NoData /\ codec.key # PrivateKey) =>
          /\ codec.result.err = "signature is invalid"
          /\ codec.result.claims = NoData

\* a token with an empty user id and issuer and two permissions not in
\* alphabetical order came back from ValidateToken in the instant of its issue
C16_Witness ==
    /\ Validated /\ codec.at = codec.issued
    /\ codec.result.err = ""
    /\ codec.claims.UserID = "" /\ codec.claims.Issuer = ""
    /\ codec.result.claims.Permissions = <<"ping:read", "news:read">>

(* ------------------------ permission resolution ------------------------ *)

\* the roles assigned to the user in user_roles
AssignedRoles(userID) == {ur[2] : ur \in {x \in userRoles : x[1] = userID}}
\* the names of the permissions role_permissions grants to the role
GrantedNames(role) ==
    {PermissionNames[rp[2]] : rp \in {x \in rolePermissions : x[1] = role}}

\* C17: GetUserPermissions returns, each name once, exactly the names of the
\* permissions granted to at least one role assigned to the user: the union,
\* over the user's roles, of the roles' permission sets.
C17_PermissionsAreUnion ==
    \A userID \in DbUserIDs :
        LET r == GetUserPermissions(DB, userID, {})
        IN  /\ r.err = ""
            /\ r.rows # {}
            /\ \A row \in r.rows :
                  /\ \A i, j \in DOMAIN row : row[i] = row[j] => i = j
                  /\ Range(row) = UNION {GrantedNames(role) : role \in AssignedRoles(userID)}

\* a user holds two roles whose permission sets overlap without one holding
\* the other, and has logged in with the three names of their union
C17_Witness ==
    \E userID \in DOMAIN users : \E r1, r2 \in AssignedRoles(userID) :
        /\ GrantedNames(r1) \cap GrantedNames(r2) # {}
        /\ GrantedNames(r1) \ GrantedNames(r2) # {}
        /\ GrantedNames(r2) \ GrantedNames(r1) # {}
        /\ \E t \in DOMAIN kv :
              /\ snapshot[t] # NoData
              /\ snapshot[t].UserID = FormatUint(userID)
              /\ Range(snapshot[t].Permissions) = GrantedNames(r1) \cup GrantedNames(r2)
              /\ Len(snapshot[t].Permissions) = 3

(* ------------------------------ system roles --------------------------- *)

\* a DeleteRole of the system role id, and a well-formed UpdateRole of it to
\* another name, answer 403 and leave the database as it is
RefusesSystemRole(id) ==
    /\ \A F \in {{}, {"delete"}, {"deluserroles"}} :
          LET o == DeleteRole(DB, id, F)
          IN  o.resp.status = 403 /\ o.db = DB
    /\ \A name \in AdminNames \ {roles[id].Name}, description \in AdminDescriptions,
          F \in {{}, {"save"}} :
          BindsRoleRequest(name, description) =>
              LET o == UpdateRole(DB, id, name, description, F)
              IN  o.resp.status = 403 /\ o.db = DB

\* one step keeps every system role in the table, under its name and with its flag
SystemRolesKept ==
    \A r \in DOMAIN roles :
        roles[r].IsSystem =>
            /\ r \in DOMAIN roles'
            /\ roles'[r].Name = roles[r].Name
            /\ roles'[r].IsSystem

\* C18: System roles keep their name and cannot be deleted: whatever CreateRole,
\* UpdateRole, DeleteRole and SetRolePermissions requests are served (and however
\* often the migrate command runs), every role with the system flag is still in the
\* table under the same name after each of them; a DeleteRole of a system role,
\* and an UpdateRole with a well-formed body that names a system role
\* differently, answer 403 and change nothing; and the role a CreateRole adds
\* never has the system flag.
C18_SystemRolesImmutable ==
    /\ [](\A id \in DOMAIN roles : roles[id].IsSystem => RefusesSystemRole(id))
    /\ [][/\ SystemRolesKept
          /\ answer'.status = 403 => (DB' = DB /\ ~answer'.changed)
          /\ answer'.op = "CreateRole" =>
                \A r \in DOMAIN roles' \ DOMAIN roles : ~roles'[r].IsSystem]_vars

\* the rename of a system role has just been refused, after a CreateRole added
\* the role ops and an UpdateRole edited the description of a system role
C18_Witness ==
    /\ answer.op = "UpdateRole"
    /\ answer.status = 403
    /\ RoleByName(DB, "ops") # {}
    /\ \E r \in DOMAIN roles : roles[r].IsSystem /\ roles[r].Description = "edited"
    /\ \A seed \in {"admin", "user"} :
          \E r \in RoleByName(DB, seed) : roles[r].IsSystem

(* ------------------------------- role names ---------------------------- *)

\* no two rows of the roles table have the same name
NamesUnique == \A r1, r2 \in DOMAIN roles : roles[r1].Name = roles[r2].Name => r1 = r2

\* the names the roles table holds
TakenNames == {roles[r].Name : r \in DOMAIN roles}

\* a CreateRole with a name the table holds answers 409 and changes nothing
CreateRoleConflicts ==
    \A name \in TakenNames, description \in AdminDescriptions, F \in {{}, {"create"}} :
        LET o == CreateRole(DB, name, description, F)
        IN  o.resp.status = 409 /\ o.db = DB

\* an UpdateRole of the role id to a name another role holds answers status and
\* changes nothing
UpdateRoleAnswers(id, status) ==
    \A name \in TakenNames \ {roles[id].Name}, description \in AdminDescriptions,
       F \in {{}, {"save"}} :
        LET o == UpdateRole(DB, id, name, description, F)
        IN  o.resp.status = status /\ o.db = DB

\* C19 as stated: Role names are unique: no two roles have the same name after
\* any sequence of requests; a CreateRole with a name that is taken, and an
\* UpdateRole of any role to a name another role holds, answer 409 and leave
\* every role unchanged.
C19_RoleNamesUnique ==
    /\ NamesUnique
    /\ CreateRoleConflicts
    /\ \A id \in DOMAIN roles : UpdateRoleAnswers(id, 409)

\* C19: Role names are unique: no two roles have the same name after any
\* sequence of requests; a CreateRole with a name that is taken answers 409; an
\* UpdateRole to a name another role holds answers 409 when the role it updates
\* is not a system role and 403 when it is; and each of these answers leaves
\* every role unchanged.
C19_RoleNamesUniqueSystemRolesRefuseFirst ==
    /\ NamesUnique
    /\ CreateRoleConflicts
    /\ \A id \in DOMAIN roles :
          UpdateRoleAnswers(id, IF roles[id].IsSystem THEN 403 ELSE 409)
    /\ answer.status = 409 => ~answer.changed

\* an UpdateRole of a role that is not a system role has just been answered 409,
\* in a table that holds the seeded roles and the role ops a CreateRole added
C19_Witness ==
    /\ answer.op = "UpdateRole"
    /\ answer.status = 409
    /\ ~answer.changed
    /\ {"admin", "user", "editor", "ops"} \subseteq TakenNames
    /\ \E id \in DOMAIN roles : ~roles[id].IsSystem /\ UpdateRoleAnswers(id, 409)

(* --------------------------------- seeding ----------------------------- *)

\* the names the seeding gives to roles
SeededNames == {SeedRoles[i].Name : i \in DOMAIN SeedRoles}

\* the permissions table, the roles table and the role_permissions table of db
RBACRows(db) == <<db.permissions, db.roles, db.rolePermissions>>

\* the role id has in after the description and the permissions it has in before
RoleKept(before, after, id) ==
    /\ id \in DOMAIN after.roles
    /\ after.roles[id] = before.roles[id]
    /\ {rp \in after.rolePermissions : rp[1] = id} =
       {rp \in before.rolePermissions : rp[1] = id}

\* C20: Seeding is idempotent: a run of SeedDefaultRolesAndPermissions on the
\* state left by a run that returned no error adds no permission row, no role
\* row and no role-permission assignment and changes none, as a call on any
\* state the tables can be in and as the second of two runs of the migrate
\* command in a row; and a run on a state that holds a role of a seeded name,
\* whatever its description and its permissions have been edited to, leaves
\* the description and the permissions of that role as they are.
C20_SeedingIdempotent ==
    /\ [](\A F1, F2 \in SeedFails :
             LET first == SeedDefaultRolesAndPermissions(DB, F1)
                 second == SeedDefaultRolesAndPermissions(first.db, F2)
             IN  /\ first.err = "" => second.err = "" /\ second.db = first.db
                 /\ \A id \in DOMAIN roles :
                       roles[id].Name \in SeededNames => RoleKept(DB, first.db, id))
    /\ [][answer'.op = "Migrate" =>
             /\ \A id \in DOMAIN roles :
                   roles[id].Name \in SeededNames => RoleKept(DB, DB', id)
             /\ (answer.op = "Migrate" /\ answer.err = "") =>
                   RBACRows(DB') = RBACRows(DB)]_vars

\* the migrate command has just run on tables it had filled before and has
\* changed nothing, while the seeded role admin carries a description written
\* by UpdateRole and the one permission left to it by SetRolePermissions
C20_Witness ==
    /\ answer.op = "Migrate"
    /\ answer.err = ""
    /\ ~answer.changed
    /\ \E id \in RoleByName(DB, "admin") :
          /\ roles[id].Description = "edited"
          /\ {rp \in rolePermissions : rp[1] = id} = {<<id, 1>>}
    /\ \E i \in DOMAIN SeedRoles :
          /\ SeedRoles[i].Name = "admin"
          /\ SeedRoles[i].Description # "edited"
          /\ Cardinality(SeedPermissionsOf(DB, i)) = 3

(* ----------------------- a revoke that fails in Refresh ----------------- *)

\* the runs of Refresh in which the revoke returns an error and the generation
\* and the store of the new session meet no failure
RevokeOnlyFails == {F \in RefreshFails : F # Cmds /\ "del" \in F /\
                                          F \cap {"get", "rand", "set", "sadd"} = {}}

\* C21: A failed revoke of the old token during Refresh is not fatal: when the
\* presented token resolves and RevokeRefreshToken returns an error (and the
\* generation and the store of the new session meet no failure of their own),
\* Refresh stores the new refresh session under a fresh token, in the index of
\* the session's user, and answers 200 with the new refresh token and an access
\* token of the same identity.
C21_FailedRevokeNotFatal ==
    \A token \in DOMAIN kv, client \in Clients, F \in RevokeOnlyFails :
        nextTok <= MaxTok =>
            LET o == Refresh(Store, token, client, F, nextTok)
                tokenData == Unmarshal(kv[token].json)
            IN  /\ RevokeRefreshToken(Store, token, F).err # ""
                /\ o.revErr
                /\ o.resp.status = 200
                /\ o.resp.refresh = nextTok
                /\ o.resp.cookie = nextTok
                /\ Identity(o.resp.access) = Identity(tokenData)
                /\ nextTok \in DOMAIN o.s.kv
                /\ Identity(Unmarshal(o.s.kv[nextTok].json)) = Identity(tokenData)
                /\ nextTok \in o.s.idx[tokenData.UserID]

\* a Refresh whose revoke returned an error has answered 200: the token it was
\* given still has its key, and the token it handed out resolves to the same user
C21_Witness ==
    \E old \in DOMAIN kv, fresh \in DOMAIN kv :
        /\ rotated[old] = "dirty"
        /\ old # fresh
        /\ owner[fresh] = owner[old]
        /\ snapshot[fresh] = snapshot[old]
        /\ rotated[fresh] = "no"

(* --------------------------- the index after a listing ------------------ *)

\* after the run of ListUserTokens(userID) with the failures F and TF, every
\* token left in the user's index resolves to a session of that user
IndexLiveAfterListing(userID, F, TF) ==
    LET l == ListUserTokens(Store, userID, F, TF)
    IN  l.err = "" =>
            \A t \in l.s.idx[userID] :
                LET g == GetRefreshTokenData(l.s, t, {})
                IN  g.err = "" /\ g.data.UserID = userID

C23_ListingKeepsLiveEntries ==
    \A userID \in LoginUserIDs, F \in ListFails :
        \A TF \in TokFails(F, idx[userID]) :
            LET l == ListUserTokens(Store, userID, F, TF)
            IN  \A t \in idx[userID] \cap DOMAIN kv :
                    /\ t \in l.s.idx[userID]
                    /\ l.err = "" =>
                          \E i \in DOMAIN l.result : l.result[i] = Unmarshal(kv[t].json)

(* --------------------------- the expiry of the index -------------------- *)

\* the longest time a record listed in the user's index has left (0 if none has one)
RECURSIVE MaxTTL(_)
MaxTTL(tokens) ==
    IF tokens = {} THEN 0
    ELSE LET t == SetMin(tokens)
             rest == MaxTTL(tokens \ {t})
         IN  IF kv[t].ttl > rest THEN kv[t].ttl ELSE rest

\* C24: in every reachable state every user's index that exists has an expiry,
\* and the time it has left exceeds the time left to the longest-lived record it
\* lists by no more than the TTL of one write (RefreshTTL): no index without an
\* expiry is left behind by StoreRefreshToken.
C24_IndexAlwaysExpires ==
    \A u \in UserIDs :
        idx[u] # {} =>
            /\ idxTTL[u] # NoTTL
            /\ idxTTL[u] - MaxTTL(idx[u] \cap DOMAIN kv) <= RefreshTTL

(* ------------------- LogoutAll under interleaving ----------------------- *)

\* C25: for every interleaving of LogoutAll(user) with Refresh requests running
\* as separate store steps, once LogoutAll has answered 200 and every Refresh
\* request has finished, no refresh session record of the user is in the store
\* unless the user logged in after LogoutAll started: a Refresh that read its
\* token before the bulk delete stores no session for the user.
C25_BulkRevocationUnderInterleaving ==
    (/\ bulk.pc = "done"
     /\ bulk.status = 200
     /\ \A r \in Requests : req[r].pc \in {"idle", "done"}
     /\ bulk.user \notin bulk.logins)
    => \A t \in DOMAIN kv : Unmarshal(kv[t].json).UserID # bulk.user

(* ------------------------ records and their index ----------------------- *)

\* C26: in every state reachable by logins, refreshes, logouts, bulk logouts and
\* listings, also when single store commands fail, each session record in the
\* store has its token in the index of the user named in the record.
C26_LiveSessionsIndexed ==
    \A t \in DOMAIN kv : t \in idx[Unmarshal(kv[t].json).UserID]

(* ------------------------------ failed logins -------------------------- *)

\* the run o of a login handler, if it answered with an error, left the store
\* as it was and handed out no refresh token and no cookie
NothingLeftBy(o) ==
    o.resp.status # 200 =>
        /\ o.s.kv = kv
        /\ o.s.idx = idx
        /\ o.resp.refresh = EmptyTok
        /\ o.resp.cookie = NoCookie

\* C27: a login that fails creates no session: when Login or GoogleCallback
\* answers with an error, whichever command failed, the store holds no record
\* and no index entry it did not hold before the request, and the answer
\* carries no refresh token and sets no cookie.
C27_FailedLoginLeavesNothing ==
    /\ \A username \in Usernames, password \in Passwords, client \in LoginClients,
          F \in LoginFails :
          NothingLeftBy(Login(Store, username, password, client, F, nextTok))
    /\ \A run \in GoogleRuns \cup {<<"good", F>> : F \in LoginFails},
          googleUser \in GoogleUsers, client \in Clients :
          \A o \in GoogleCallback(Store, DB, run[1], googleUser, client, run[2], nextTok) :
              NothingLeftBy(o)

\* the chain of the request is that of an admin route
OnAdminRoute == ctx.chain # <<>> /\ ctx.chain[Len(ctx.chain)].mw \in AdminHandlers

\* the request carries a token the server signed, not expired when the gate
\* read the clock, whose role claim is admin
CarriesAdminToken ==
    /\ Admissible(ctx.header, ctx.at)
    /\ ctx.claims # NoClaims
    /\ ctx.header = Bearer(SignedString("RS256", ctx.claims, PrivateKey))
    /\ ctx.claims.Role = "admin"

\* this step is an admin handler running for a request with an admin token
AdminHandlerStep ==
    /\ OnAdminRoute /\ CarriesAdminToken
    /\ ~ctx.reached /\ ctx'.reached
    /\ ctx.index = Len(ctx.chain)

\* on an admin route the role check is met only past the gate, the handler only
\* past the role check, and the handler runs only with an admin token
GateThenRoleThenHandler ==
    OnAdminRoute =>
        /\ GateFirst
        /\ ctx.index > 1 => Admissible(ctx.header, ctx.at) /\ ctx.claims # NoClaims
        /\ ctx.index > 2 => CarriesAdminToken
        /\ ctx.reached => ctx.index > 2 /\ CarriesAdminToken

\* C28 as stated: the handlers ListPermissions, ListRoles, GetRole, CreateRole,
\* UpdateRole, DeleteRole and SetRolePermissions run only for a request with a
\* correctly signed, unexpired token whose role claim is admin, the gate before
\* the role check and the role check before the handler; every other request
\* leaves every role and every permission assignment unchanged, the assignments
\* of roles to users among them.
C28_AdminOnlyBehindAdminToken ==
    /\ [](GateThenRoleThenHandler)
    /\ [][<<permissionRows, roles, rolePermissions, userRoles>>' #
              <<permissionRows, roles, rolePermissions, userRoles>> => AdminHandlerStep]_vars

\* C28, amended: as above for the roles, the permissions and the permissions
\* assigned to roles; the assignments of roles to users are changed by an admin
\* handler or by the Google login that creates a user, which gives the new
\* user, and nobody else, roles.
C28_AdminOnlyBehindAdminTokenButFirstGoogleLogin ==
    /\ [](GateThenRoleThenHandler)
    /\ [][<<permissionRows, roles, rolePermissions>>' #
              <<permissionRows, roles, rolePermissions>> => AdminHandlerStep]_vars
    /\ [][userRoles' # userRoles =>
              \/ AdminHandlerStep
              \/ /\ ctx = NoRequest
                 /\ \A ur \in userRoles' \ userRoles : ur[1] \notin DOMAIN users
                 /\ userRoles \subseteq userRoles']_vars

\* an admin's request created a role, after a user's request for the same was
\* refused with 403 and left the roles alone
C28_Witness ==
    /\ OnAdminRoute /\ ctx.reached /\ CarriesAdminToken
    /\ ctx.chain[3].mw = "CreateRole" /\ ctx.status = 201
    /\ \E id \in DOMAIN roles : roles[id].Name = "ops"

\* the records of s are those of the store but for the tokens in gone, each
\* with the contents it had
RecordsKeptBut(s, gone) ==
    /\ DOMAIN s.kv \subseteq DOMAIN kv
    /\ DOMAIN kv \ DOMAIN s.kv \subseteq gone
    /\ \A t \in DOMAIN s.kv : s.kv[t] = kv[t]
    /\ \A t \in TokenIds \ gone : Resolves(t) => ResolvesIn(s, t)

\* C29: Logout with token T deletes nothing but the record of T and the entry of
\* T in the index of the record's user; LogoutAll(user) deletes nothing but
\* records listed in the index of the user and that index. Every other session,
\* of the same user in the first case and of every other user in both, still
\* resolves, with the contents it had, whichever commands fail.
C29_RevocationTouchesOnlyTarget ==
    /\ \A T \in Presentable : \A F \in LogoutFails :
          LET s == Logout(Store, T, F).s
          IN  /\ RecordsKeptBut(s, {T})
              /\ \A u \in UserIDs :
                    \/ s.idx[u] = idx[u] /\ s.ittl[u] = idxTTL[u]
                    \/ /\ T \in DOMAIN kv /\ kv[T].json.user_id = u
                       /\ s.idx[u] = idx[u] \ {T}
    /\ \A userID \in UserIDs : \A F \in BulkFails : \A TF \in TokFails(F, idx[userID]) :
          LET s == LogoutAll(Store, userID, F, TF).s
          IN  /\ RecordsKeptBut(s, idx[userID])
              /\ \A t \in DOMAIN kv : kv[t].json.user_id # userID =>
                    t \in DOMAIN s.kv /\ s.kv[t] = kv[t]
              /\ \A u \in UserIDs \ {userID} : s.idx[u] = idx[u] /\ s.ittl[u] = idxTTL[u]

\* a token was logged out, its record and its index entry are gone, and the
\* session of a later login still resolves and is in the index of its user
C29_Witness ==
    \E T \in TokenIds, t \in TokenIds :
        /\ T # t
        /\ revoked[T] = "clean" /\ T \notin DOMAIN kv
        /\ \A u \in UserIDs : T \notin idx[u]
        /\ Resolves(t) /\ kv[t].json.user_id = owner[t]
        /\ t \in idx[kv[t].json.user_id]

\* the names of the permissions the roles assigned to the user in db grant
UnionOfAssigned(db, userID) ==
    {PermissionNames[rp[2]] :
        rp \in {x \in db.rolePermissions : \E ur \in db.userRoles : ur[1] = userID /\ ur[2] = x[1]}}

\* the context of a request that carries a token with these claims, past the gate
WithClaims(claims) == [NoRequest EXCEPT !.chain = <<JWTAuthMW, Endpoint>>, !.index = 2,
                                        !.claims = claims]

\* the lists RequireRole and RequirePermission are asked about
RoleLists == {<<"user">>, <<"admin">>, <<"editor", "admin">>}
PermissionLists == {<<"ping:read">>, <<"news:create">>, <<"roles:read", "news:update">>}

\* what a Google login that meets no failure would issue now: the role claim is
\* the label stored with the user, which is "user", whatever roles are assigned;
\* the permission claim is the union over the assigned roles; RequireRole
\* decides by the first and RequirePermission by the second
GoogleTokenClaims ==
    \A googleUser \in GoogleUsers, client \in Clients :
      \A o \in GoogleCallback(Store, DB, "good", googleUser, client, {}, nextTok) :
        LET id == findOrCreateUser(DB, googleUser, {}).id
            claims == o.resp.access
        IN  /\ o.resp.status = 200
            /\ claims.Role = o.db.users[id].Role
            /\ claims.Role = "user"
            /\ Range(claims.Permissions) = UnionOfAssigned(o.db, id)
            /\ \A r \in RoleLists :
                  ~RequireRole(r, WithClaims(claims)).aborted <=> "user" \in Range(r)
            /\ \A q \in PermissionLists :
                  ~RequirePermission(q, WithClaims(claims)).aborted
                      <=> Range(q) \cap UnionOfAssigned(o.db, id) # {}

====
